---- MODULE Spec2Model ----
(***************************************************************************)
(* Timing and segment synchronisation core of apple-music-lyrics.          *)
(*                                                                         *)
(* Four player views are modelled:                                         *)
(*   "AMLP"            AppleMusicLyricsPlayer (AppleMusicLyricsPlayer.tsx) *)
(*   "PlayerJsx"       the LRC-only Player    (VirtualList.tsx, l. 99-332) *)
(*   "Player"          the react-window Player (Player.tsx, l. 8-172)      *)
(*   "PlayerComponent" PlayerComponent + VirtualList (Player.tsx 182-326)  *)
(*                                                                         *)
(* Times are integers (one unit = one millisecond of the media clock).     *)
(* Array indices are 0-based as in the source; Item(list, i) reads them.   *)
(***************************************************************************)
EXTENDS Integers, Sequences, FiniteSets, TLC

VARIABLES
    view,             \* which component is mounted
    mounted,          \* the component is in the tree
    cleanedUp,        \* the effect cleanups of the unmounted component have run
    audioEl,          \* audioRef.current is a media element (not null)
    currentTime,      \* the media element's playback position
    lyrics,           \* LRC players: useState lyrics
    index,            \* LRC players: useState index
    currentIndexRef,  \* LRC players: currentIndexRef.current
    mountedRef,       \* AppleMusicLyricsPlayer: mountedRef.current
    segments,         \* timing players: useState segments
    currentIdx,       \* timing players: useState currentIdx
    autoScroll,       \* timing players: useState autoScroll
    offsetMs,         \* PlayerComponent: useState offsetMs
    timing,           \* the TimingCore instance
    rafRef,           \* rafRef.current
    frames,           \* the frame callbacks requested for the next frame
    batch,            \* the callbacks of the frame being run, not yet called
    scrollTop,        \* the list container's scroll offset
    pending,          \* the pending continuations (equal ones are one element)
    audioFile,        \* PlayerComponent: useState audioFile
    cache,            \* the segment cache, by audio file name
    last,             \* what the last step did (observation only)
    low, high, ans,   \* the binary search's loop variables
    pc,               \* the binary search's position
    reads,            \* the indices the binary search has read
    pushed,           \* every drift sample pushed so far, oldest first
    audioBuf,         \* WaveformEditor: audioBufRef.current (the decoded file)
    duration,         \* WaveformEditor: useState duration, in ms
    decodes,          \* WaveformEditor: the reads and decodes under way
    dragging,         \* WaveformEditor: `dragging` of the pointer effect
    selRef,           \* WaveformEditor: selRef.current, <<>> for null
    pointerX,         \* clientX - rect.left of the last pointer event
    emitted,          \* the selections handed to onSelection, oldest first
    listProps,        \* VirtualList: the props of the latest render
    handleCount,      \* VirtualList: items.length seen by the handle's closure
    visible,          \* VirtualList: <<startIndex, endIndex>> of the render
    rendered,         \* VirtualList: the rows, topPad and inner height rendered
    target,           \* VirtualList: the last scrollToIndex call and its target
    lrcText,          \* useState rawLrc: the LRC text last given to parseLRC
    blobs,            \* the blob URLs created so far, numbered 1..blobs
    revoked,          \* the URLs passed to URL.revokeObjectURL, in order
    activeBlob,       \* AppleMusicLyricsPlayer: activeBlob.current, 0 for null
    audioSrc,         \* the src of the <audio> element, 0 for none
    highlighted       \* Player: <<row, word>> of the words the last render lit

searchVars == <<low, high, ans, pc, reads>>
driftVars  == <<pushed>>
waveVars   == <<audioBuf, duration, decodes, dragging, selRef, pointerX,
                emitted>>
listVars   == <<listProps, handleCount, visible, rendered, target>>
parseVars  == <<lrcText>>
blobVars   == <<blobs, revoked, activeBlob, audioSrc>>
rowVars    == <<highlighted>>
sideVars   == <<driftVars, waveVars, listVars, parseVars, blobVars, rowVars>>
mediaVars  == <<audioEl, currentTime>>
lrcVars    == <<lyrics, index, currentIndexRef, mountedRef>>
timingVars == <<segments, currentIdx, autoScroll, offsetMs, timing>>
rafVars    == <<rafRef, frames, batch, scrollTop>>
ioVars     == <<pending, audioFile, cache>>
\* What the players' own steps never touch.
asideVars  == <<searchVars, sideVars>>
vars == <<view, mounted, cleanedUp, mediaVars, lrcVars, timingVars, rafVars,
          ioVars, last, asideVars>>

-----------------------------------------------------------------------------
(* Bounds of the model. *)

\* The start times of the lists the lookup is exercised on, and the stamps of
\* the LRC texts, range over 0..MaxTime.
MaxTime == 2
\* The lists the binary search is exercised on have at most MaxLen entries.
MaxLen == 3

\* The long list has LongLen segments: more rows than the list viewport shows.
LongLen == 14

-----------------------------------------------------------------------------
(* Generic helpers. *)

Max(a, b) == IF a >= b THEN a ELSE b
Min(a, b) == IF a <= b THEN a ELSE b

\* list[i] with the source's 0-based index.
Item(list, i) == list[i + 1]

\* The marker of an absent end_ms.
NoEnd == -1

\* No file chosen (`null`).
NoFile == "none"

\* A sort that puts equal keys in the reverse of their old order.
ReversingSort(list, keys) ==
    LET n == Len(list)
        Before(j, i) ==
            \/ keys[j] < keys[i]
            \/ keys[j] = keys[i] /\ j > i
        Pos(i) == Cardinality({j \in 1..n : Before(j, i)}) + 1
    IN  [p \in 1..n |-> list[CHOOSE i \in 1..n : Pos(i) = p]]

\* The stable sort of Array.prototype.sort with the comparator
\* (a, b) => key(a) - key(b), keys[i] being the key of list[i]: ascending
\* keys, equal keys in their old order.
StableSort(list, keys) ==
    LET n == Len(list)
        Before(j, i) ==
            \/ keys[j] < keys[i]
            \/ keys[j] = keys[i] /\ j < i
        Pos(i) == Cardinality({j \in 1..n : Before(j, i)}) + 1
    IN  [p \in 1..n |-> list[CHOOSE i \in 1..n : Pos(i) = p]]

\* The concatenation of a sequence of sequences.
RECURSIVE Flatten(_)
Flatten(ss) == IF ss = <<>> THEN <<>> ELSE Head(ss) \o Flatten(Tail(ss))

-----------------------------------------------------------------------------
(* The active-segment lookup: the binary search of the tick loop.          *)

\* A mutant of TimeAtOrBefore: a strict comparison.
TimeStrictlyBefore(list, mid, t) == Item(list, mid).time < t

\* `lyrics[mid].time <= t`
TimeAtOrBefore(list, mid, t) == Item(list, mid).time <= t

\* A search that probes the lower end of the range: a linear walk.
MidAtLow(lo, hi) == lo

\* `const mid = Math.floor((low + high) / 2)`
Mid(lo, hi) == (lo + hi) \div 2

\* One iteration of `while (low <= high) { ... }` on the loop variables.
SearchStep(st, list, t) ==
    LET mid == Mid(st.low, st.high)
    IN  IF TimeAtOrBefore(list, mid, t)
        THEN [low |-> mid + 1, high |-> st.high, ans |-> mid]
        ELSE [low |-> st.low, high |-> mid - 1, ans |-> st.ans]

RECURSIVE SearchFrom(_, _, _)
SearchFrom(st, list, t) ==
    IF st.low <= st.high THEN SearchFrom(SearchStep(st, list, t), list, t)
    ELSE st.ans

\* `let low = 0, high = lyrics.length - 1, ans = -1; while ... ` run to the end.
BinarySearch(list, t) ==
    SearchFrom([low |-> 0, high |-> Len(list) - 1, ans |-> -1], list, t)

\* The naive linear scan the lookup is compared with.
LinearScan(list, t) ==
    LET hits == {i \in 0..Len(list) - 1 : Item(list, i).time <= t}
    IN  IF hits = {} THEN -1 ELSE CHOOSE i \in hits : \A j \in hits : j <= i

\* `out.sort((a, b) => a.time - b.time)` leaves the list in this order.
SortedByTime(list) ==
    \A i \in 1..Len(list) - 1 : list[i].time <= list[i + 1].time

-----------------------------------------------------------------------------
(* The lookup on its own: every sorted list of at most MaxLen entries and   *)
(* every time, the loop stepped one iteration at a time.  The entries carry *)
(* an end_ms (absent, or equal to the start) next to the time the search    *)
(* compares, so that a result that depended on it would show.               *)

SearchEntries == [time : 0..MaxTime, end_ms : {NoEnd}] \cup
                 {[time |-> s, end_ms |-> s] : s \in 0..MaxTime}

SearchLists ==
    {l \in UNION {[1..n -> SearchEntries] : n \in 0..MaxLen} : SortedByTime(l)}

\* A list of LongLen entries whose times spread over 0..MaxTime.
LongLyrics ==
    [i \in 1..LongLen |->
        [time |-> ((i - 1) * (MaxTime + 1)) \div LongLen, end_ms |-> NoEnd]]

SearchTimes == -1..MaxTime + 1

\* What every variable of the players holds while only the lookup runs.
PlayersIdle ==
    /\ view = "none" /\ mounted = FALSE /\ cleanedUp = FALSE
    /\ audioEl = TRUE
    /\ index = -1 /\ currentIndexRef = -1 /\ mountedRef = TRUE
    /\ segments = <<>> /\ currentIdx = -1 /\ autoScroll = TRUE /\ offsetMs = 0
    /\ timing = [segments |-> <<>>, offsetMs |-> 0, driftSamples |-> <<>>,
                 capacity |-> 1]
    /\ rafRef = 0 /\ frames = <<>> /\ batch = <<>> /\ scrollTop = 0
    /\ pending = {} /\ audioFile = NoFile /\ cache = <<>>
    /\ last = "other"

\* No drift sample has been recorded.
DriftIdle == pushed = <<>>

\* No waveform editor: nothing decoded, no gesture.
WaveIdle ==
    /\ audioBuf = "none" /\ duration = 0 /\ decodes = {}
    /\ dragging = FALSE /\ selRef = <<>> /\ pointerX = 0 /\ emitted = <<>>

\* No list on its own and no text parsed.
ListIdle ==
    /\ listProps = [count |-> 0, itemHeight |-> 1, height |-> 1, overscan |-> 0,
                    scrollTop |-> 0]
    /\ handleCount = 0 /\ visible = <<0, -1>>
    /\ rendered = [rows |-> <<>>, topPad |-> 0, innerHeight |-> 0]
    /\ target = [i |-> 0, align |-> "start", halfPx |-> 0]

ParseIdle == lrcText = <<>>

BlobIdle == blobs = 0 /\ revoked = <<>> /\ activeBlob = 0 /\ audioSrc = 0

\* No row with words has been rendered.
RowIdle == highlighted = {}

SideIdle ==
    DriftIdle /\ WaveIdle /\ ListIdle /\ ParseIdle /\ BlobIdle /\ RowIdle

SearchInit ==
    /\ PlayersIdle /\ SideIdle
    /\ lyrics \in SearchLists \cup {LongLyrics}
    /\ currentTime \in SearchTimes
    /\ low = 0 /\ high = Len(lyrics) - 1 /\ ans = -1
    /\ pc = "loop" /\ reads = {}

\* One iteration of the while loop.
SearchLoop ==
    /\ pc = "loop" /\ low <= high
    /\ LET st == SearchStep([low |-> low, high |-> high, ans |-> ans],
                            lyrics, currentTime)
       IN  /\ low' = st.low /\ high' = st.high /\ ans' = st.ans
    /\ reads' = reads \cup {Mid(low, high)}
    /\ UNCHANGED <<pc, view, mounted, cleanedUp, mediaVars, lrcVars,
                   timingVars, rafVars, ioVars, last, sideVars>>

\* The loop condition fails: the search is over and ans is its result.
SearchExit ==
    /\ pc = "loop" /\ low > high
    /\ pc' = "done"
    /\ UNCHANGED <<low, high, ans, reads, view, mounted, cleanedUp, mediaVars,
                   lrcVars, timingVars, rafVars, ioVars, last, sideVars>>

SearchNext == SearchLoop \/ SearchExit

SpecLookup == SearchInit /\ [][SearchNext]_vars

\* The loop is synchronous code: once entered it runs until its condition
\* fails.
SpecLookupFair == SpecLookup /\ WF_vars(SearchNext)

(* C1: for every sorted list and every time t the finished binary search    *)
(* holds the largest index whose time is <= t, or -1 when there is none:    *)
(* the result of the naive linear scan, whatever the entries' end_ms, and   *)
(* the highest position among entries of equal time.  The search run as one *)
(* operator (as the ticks of the players use it) gives the same result.     *)
LookupIsLargestStartAtOrBefore ==
    /\ pc = "done" => ans = LinearScan(lyrics, currentTime)
    /\ BinarySearch(lyrics, currentTime) = LinearScan(lyrics, currentTime)
    /\ pc = "done" /\ ans >= 0 =>
          /\ Item(lyrics, ans).time <= currentTime
          /\ \A j \in ans + 1..Len(lyrics) - 1 : Item(lyrics, j).time > currentTime
    /\ pc = "done" /\ ans = -1 =>
          \A j \in 0..Len(lyrics) - 1 : Item(lyrics, j).time > currentTime

\* A finished search that resolved a tie to the later entry, at a time past
\* the found entry's own end_ms.
LookupTieWitness ==
    /\ pc = "done" /\ ans >= 1
    /\ Item(lyrics, ans).time = Item(lyrics, ans - 1).time
    /\ Item(lyrics, ans).end_ms # NoEnd
    /\ Item(lyrics, ans).end_ms < currentTime
    /\ ans < Len(lyrics) - 1

-----------------------------------------------------------------------------
(* Animation frames.  requestAnimationFrame appends a callback to the list  *)
(* of the next frame; a frame takes the whole list as its batch and calls   *)
(* the callbacks in the order they were requested; nothing else runs        *)
(* between the callbacks of one frame.  A handle is a number; a handle      *)
(* whose callback has run or was cancelled is Stale (cancelling it does     *)
(* nothing), and 0 stands for `null`.                                       *)

Stale == -1

\* A callback of the tick loop: the closure `loop` of one run of the effect,
\* with what it captured (lyrics; or currentIdx and autoScroll) and the
\* effect's `cancelled` variable.
LoopCallback(l, i, a) ==
    [id |-> 0, kind |-> "loop", cancelled |-> FALSE, lyrics |-> l,
     idx |-> i, auto |-> a, start |-> 0, delta |-> 0, age |-> 0]

\* A callback of a scroll animation: the closure `frame` of scrollToIndex,
\* with start, delta and the time elapsed since t0.
AnimCallback(st, d) ==
    [id |-> 0, kind |-> "anim", cancelled |-> FALSE, lyrics |-> <<>>,
     idx |-> -1, auto |-> FALSE, start |-> st, delta |-> d, age |-> 0]

Handles(R) == {R.frames[i].id : i \in DOMAIN R.frames} \cup
              {R.batch[i].id : i \in DOMAIN R.batch}

\* The handle the next requestAnimationFrame returns.
FreshHandle(R) ==
    CHOOSE n \in 1..Cardinality(Handles(R)) + 1 :
        n \notin Handles(R) /\ \A m \in 1..n - 1 : m \in Handles(R)

\* A frame queue that calls the callback requested last first.
RequestFrameFirst(R, cb) ==
    [R EXCEPT !.frames = <<[cb EXCEPT !.id = FreshHandle(R)]>> \o @]

\* requestAnimationFrame(cb), the returned handle dropped.
RequestFrame(R, cb) ==
    [R EXCEPT !.frames = Append(@, [cb EXCEPT !.id = FreshHandle(R)])]

\* `rafRef.current = requestAnimationFrame(cb)`
RequestFrameIntoRef(R, cb) ==
    [RequestFrame(R, cb) EXCEPT !.ref = FreshHandle(R)]

\* cancelAnimationFrame(id)
CancelFrame(R, id) ==
    [ref    |-> IF R.ref = id /\ id \in Handles(R) THEN Stale ELSE R.ref,
     frames |-> SelectSeq(R.frames, LAMBDA cb : cb.id # id),
     batch  |-> SelectSeq(R.batch, LAMBDA cb : cb.id # id)]

\* A mutant of CancelRef: the cleanup forgets to cancel the pending frame.
CancelRefForgotten(R) == R

\* `if (rafRef.current) cancelAnimationFrame(rafRef.current)`
CancelRef(R) == IF R.ref = 0 THEN R ELSE CancelFrame(R, R.ref)

\* `cancelled = true` in an effect's cleanup: every callback of the loop that
\* is pending closes over that variable (callbacks of earlier runs of the
\* effect have had theirs set by their own cleanup).
SetCancelled(R) ==
    LET Mark(cb) == IF cb.kind = "loop" THEN [cb EXCEPT !.cancelled = TRUE] ELSE cb
    IN  [R EXCEPT !.frames = [i \in DOMAIN @ |-> Mark(@[i])],
                  !.batch  = [i \in DOMAIN @ |-> Mark(@[i])]]

Raf == [ref |-> rafRef, frames |-> frames, batch |-> batch]

SetRaf(R) == rafRef' = R.ref /\ frames' = R.frames /\ batch' = R.batch

LoopCallbacks(R) ==
    {R.frames[i] : i \in {j \in DOMAIN R.frames : R.frames[j].kind = "loop"}} \cup
    {R.batch[i] : i \in {j \in DOMAIN R.batch : R.batch[j].kind = "loop"}}

-----------------------------------------------------------------------------
(* LRC text.  A text is its sequence of lines; a line is the sequence of    *)
(* times of its well-formed [mm:ss.xx] stamps and the trimmed text left     *)
(* when the stamps are removed (a malformed stamp is not matched by the     *)
(* pattern and stays in that text).  A line's text is the sequence of its   *)
(* pieces, <<>> for the empty string.                                       *)

LrcLine(stamps, text) == [stamps |-> stamps, text |-> text]

\* `for (const t of times) out.push({ time: t, text: txt })`
LineEntries(line) ==
    [i \in 1..Len(line.stamps) |-> [time |-> line.stamps[i], text |-> line.text]]

\* parseLRC of AppleMusicLyricsPlayer: a line whose text is empty is skipped.
ParseLRC(text) ==
    LET kept == SelectSeq(text, LAMBDA line : line.text # <<>>)
        out  == Flatten([i \in 1..Len(kept) |-> LineEntries(kept[i])])
    IN  StableSort(out, [i \in DOMAIN out |-> out[i].time])

\* parseLRC of the LRC-only Player: every stamp yields an entry.
ParseLRCJsx(text) ==
    LET out == Flatten([i \in 1..Len(text) |-> LineEntries(text[i])])
    IN  StableSort(out, [i \in DOMAIN out |-> out[i].time])

\* parseLRC of the second AppleMusicLyricsPlayer: a blank line is skipped (it
\* has no stamp), a stamped line without text is kept.
ParseLRCSecond(text) ==
    LET kept == SelectSeq(text, LAMBDA line : line.stamps # <<>> \/ line.text # <<>>)
        out  == Flatten([i \in 1..Len(kept) |-> LineEntries(kept[i])])
    IN  StableSort(out, [i \in DOMAIN out |-> out[i].time])

\* The sample of loadSample (both LRC players have the same four stamps).
SampleLrc ==
    << LrcLine(<<0>>, <<"Sample demo lyric line">>),
       LrcLine(<<4000>>, <<"The next big line shows">>),
       LrcLine(<<8500>>, <<"Apple-like centered lyric">>),
       LrcLine(<<12000>>, <<"Another sample line">>) >>

\* The texts the user uploads or pastes.
LrcTexts ==
    { <<>>,
      << LrcLine(<<>>, <<"no stamp">>) >>,
      << LrcLine(<<1, 2>>, <<"x">>), LrcLine(<<1>>, <<"y">>), LrcLine(<<0>>, <<>>) >>,
      [i \in 1..MaxTime + 3 |-> LrcLine(<<Min(i - 1, MaxTime)>>, <<"line">>)] }

-----------------------------------------------------------------------------
(* The players. *)

LrcViews    == {"AMLP", "PlayerJsx"}
TimingViews == {"Player", "PlayerComponent"}
Views       == LrcViews \cup TimingViews

\* The positions the media clock is read at: at and between the start
\* times of the lists the timing players are given (0, 1 and 2).
ClockValues == {0, 1, 2}

\* What the last step was: "click" (click-to-seek), "tick" (a tick with a
\* media element that left the active index as it was), "tick-changed" (one
\* that changed it), "tick-after-click" (one that changed the index the
\* click-to-seek just before it had left), "tick-no-media", "dead" (a loop
\* callback that returned at once), "other".
Did(op) == op

TickDid(newIdx, oldIdx) ==
    IF newIdx = oldIdx THEN "tick"
    ELSE IF last = "click" THEN "tick-after-click" ELSE "tick-changed"

\* A mutant of MediaMissing: the tick never takes the no-media branch.
MediaNeverMissing == FALSE

\* `const a = audioRef.current; if (!a)`
MediaMissing == ~audioEl

\* The active index: the highlighted row of the view.
ActiveIndex == IF view \in LrcViews THEN index ELSE currentIdx

\* The segment list the view holds.
HeldList == IF view \in LrcViews THEN lyrics ELSE segments

SearchIdle ==
    low = 0 /\ high = -1 /\ ans = -1 /\ pc = "idle" /\ reads = {}

\* The players' steps are taken with the side variables at rest.
AsideIdle == SearchIdle /\ SideIdle

-----------------------------------------------------------------------------
(* The LRC players: AppleMusicLyricsPlayer and the LRC-only Player. *)

\* The cleanup of the RAF sync effect; it exists only when the effect's run
\* got past the empty-lyrics return.
\*   AMLP:      cancelled = true; if (rafRef.current) cancel; rafRef.current = null
\*   PlayerJsx: cancelled = true; if (rafRef.current) cancel
LrcCleanup(R, oldLyrics) ==
    IF oldLyrics = <<>> THEN R
    ELSE IF view = "AMLP" THEN [CancelRef(SetCancelled(R)) EXCEPT !.ref = 0]
    ELSE CancelRef(SetCancelled(R))

\* The body of the RAF sync effect for the lyrics of the new render.
LrcEffectRun(R, newLyrics) ==
    IF newLyrics = <<>> THEN R
    ELSE RequestFrameIntoRef(R, LoopCallback(newLyrics, -1, FALSE))

\* The empty-lyrics branch of the RAF sync effect: AMLP sets index and
\* currentIndexRef to -1 before it returns, the LRC-only Player just returns.
EmptyLyricsReset(newLyrics, i) ==
    IF newLyrics = <<>> /\ view = "AMLP" THEN -1 ELSE i

\* setLyrics(parsed) followed by the re-render: the effect's dependency
\* [lyrics] is a new array, so its cleanup and its body run.
ReplaceLyrics(parsed, newIndex, newRef) ==
    /\ lyrics' = parsed
    /\ index' = EmptyLyricsReset(parsed, newIndex)
    /\ currentIndexRef' = EmptyLyricsReset(parsed, newRef)
    /\ mountedRef' = IF view = "AMLP" /\ parsed # <<>> THEN TRUE ELSE mountedRef
    /\ SetRaf(LrcEffectRun(LrcCleanup(Raf, lyrics), parsed))

ParseForView(text) == IF view = "AMLP" THEN ParseLRC(text) ELSE ParseLRCJsx(text)

\* `setIndex(-1); currentIndexRef.current = -1` of the LRC handlers.
ResetOnLoad(i) == -1

\* onLrcFile: the FileReader's onload.
OnLrcFile ==
    /\ view \in LrcViews /\ mounted /\ batch = <<>>
    /\ \E text \in LrcTexts :
          ReplaceLyrics(ParseForView(text), ResetOnLoad(index),
                        ResetOnLoad(currentIndexRef))
    /\ last' = Did("other")
    /\ UNCHANGED <<view, mounted, cleanedUp, mediaVars, timingVars, scrollTop,
                   ioVars, asideVars>>

\* onPasteLrc: the textarea's change event.
OnPasteLrc ==
    /\ view \in LrcViews /\ mounted /\ batch = <<>>
    /\ \E text \in LrcTexts :
          ReplaceLyrics(ParseForView(text), ResetOnLoad(index),
                        ResetOnLoad(currentIndexRef))
    /\ last' = Did("other")
    /\ UNCHANGED <<view, mounted, cleanedUp, mediaVars, timingVars, scrollTop,
                   ioVars, asideVars>>

\* loadSample: AMLP resets index and currentIndexRef, the LRC-only Player
\* sets the lyrics only.
LoadSample ==
    /\ view \in LrcViews /\ mounted /\ batch = <<>>
    /\ IF view = "AMLP"
       THEN ReplaceLyrics(ParseForView(SampleLrc), ResetOnLoad(index),
                          ResetOnLoad(currentIndexRef))
       ELSE ReplaceLyrics(ParseForView(SampleLrc), index, currentIndexRef)
    /\ last' = Did("other")
    /\ UNCHANGED <<view, mounted, cleanedUp, mediaVars, timingVars, scrollTop,
                   ioVars, asideVars>>

\* A mutant of IndexChanged: the tick takes every lookup for a change.
IndexAlwaysChanged(found, captured) == TRUE

\* A mutant of IndexChanged: the tick only follows the index forward.
IndexMovedForward(found, captured) == found > captured

\* `if (idx !== currentIdx)` of the timing players' tick, currentIdx being the
\* value the callback's closure captured; `if (ans !== currentIndexRef.current)`
\* of the LRC players' tick.
IndexChanged(found, captured) == found # captured

\* `if (cancelled || !mountedRef.current) return` (AMLP), `if (cancelled)
\* return` (LRC-only Player).
LoopReturnsAtOnce(cb) ==
    cb.cancelled \/ (view = "AMLP" /\ ~mountedRef)

\* One call of `loop` of an LRC player; R is the frame state with the
\* callback taken off the batch.
LrcLoop(cb, R) ==
    IF LoopReturnsAtOnce(cb) THEN
        /\ SetRaf(R)
        /\ last' = Did("dead")
        /\ UNCHANGED <<lyrics, index, currentIndexRef, mountedRef>>
    ELSE IF MediaMissing THEN
        /\ SetRaf(RequestFrameIntoRef(R, cb))
        /\ last' = Did("tick-no-media")
        /\ UNCHANGED <<lyrics, index, currentIndexRef, mountedRef>>
    ELSE
        LET found   == BinarySearch(cb.lyrics, currentTime)
            changed == IndexChanged(found, currentIndexRef)
        IN  /\ currentIndexRef' = IF changed THEN found ELSE currentIndexRef
            \* setIndex does nothing once the component is unmounted
            /\ index' = IF changed /\ mounted THEN found ELSE index
            /\ SetRaf(RequestFrameIntoRef(R, cb))
            /\ last' = TickDid(index', index)
            /\ UNCHANGED <<lyrics, mountedRef>>

-----------------------------------------------------------------------------
(* Segments and the TimingCore.  TimingCore.ts is not among the sources;    *)
(* it is modelled from section 4.2 of the specification.  The players call  *)
(* setSegments, setOffset, pushDrift and getCurrentSegmentIndex and read    *)
(* nothing else back: the index they highlight and compare a lookup with    *)
(* is their own state currentIdx.                                           *)

Segment(id, start, end) ==
    [id |-> id, start_ms |-> start, end_ms |-> end, text |-> "line"]

\* The capacity of the drift buffer ("fixed small capacity": the number is
\* not given, the smallest buffer is taken).
DriftCapacity == 1

\* A TimingCore whose drift buffer holds at most `capacity` samples.
TimingCoreOf(capacity) ==
    [segments |-> <<>>, offsetMs |-> 0, driftSamples |-> <<>>,
     capacity |-> capacity]

TimingCoreNew == TimingCoreOf(DriftCapacity)

\* timing.setSegments(list)
SetSegments(tc, list) == [tc EXCEPT !.segments = list]

\* timing.setOffset(ms)
SetOffset(tc, ms) == [tc EXCEPT !.offsetMs = ms]

\* A buffer that evicts the newest sample instead of the oldest.
PushDriftKeepsOldest(tc, sample) ==
    LET all == Append(tc.driftSamples, sample)
    IN  [tc EXCEPT !.driftSamples =
            IF Len(all) > tc.capacity THEN SubSeq(all, 1, tc.capacity) ELSE all]

\* timing.pushDrift(sample): append, the oldest evicted first.
PushDrift(tc, sample) ==
    LET all == Append(tc.driftSamples, sample)
    IN  [tc EXCEPT !.driftSamples =
            IF Len(all) > tc.capacity THEN Tail(all) ELSE all]

\* The time the lookup searches for: the playback position plus the offset.
EffectiveTime(tc, playbackMs) == playbackMs + tc.offsetMs

\* timing.getCurrentSegmentIndex(playbackMs): the binary search over the
\* segments' start_ms at t = playbackMs + offsetMs.
GetCurrentSegmentIndex(tc, playbackMs) ==
    BinarySearch([i \in 1..Len(tc.segments) |-> [time |-> tc.segments[i].start_ms]],
                 EffectiveTime(tc, playbackMs))

\* The sample a tick pushes: performance.now() - playbackMs.
TickDrift == 1

-----------------------------------------------------------------------------
(* The lists the timing players are given. *)

LongList == [i \in 1..LongLen |-> Segment(<<"seg", i>>, (i - 1) \div 7, NoEnd)]

\* What parseAnyToSegments returns (parsers.ts is not among the sources: a
\* list sorted by start_ms, end_ms absent where the format has none), and
\* what a parent passes as initialSegments.
ParsedLists ==
    { <<>>,
      << Segment(<<"seg", 1>>, 1, NoEnd), Segment(<<"seg", 2>>, 1, 1),
         Segment(<<"seg", 3>>, 2, 4) >>,
      LongList }

\* `!segs[i].end_ms || segs[i].end_ms <= segs[i].start_ms`
\* An inference that replaces absent ends only.
NeedsEndWhenAbsent(seg) == seg.end_ms = NoEnd

NeedsEnd(seg) == seg.end_ms = NoEnd \/ seg.end_ms = 0 \/ seg.end_ms <= seg.start_ms

\* The end-time inference loop of onLrcFileInput.
InferEnds(segs) ==
    [i \in 1..Len(segs) |->
        IF i < Len(segs) /\ NeedsEnd(segs[i])
        THEN [segs[i] EXCEPT !.end_ms = segs[i + 1].start_ms - 1]
        ELSE segs[i]]

\* The width of the waveform canvas in pixels (rect.width).  The times toMs
\* yields are fractional: they are kept as whole numbers of 1/CanvasWidth ms.
CanvasWidth == 2

\* Committed waveform selections (startMs, endMs), in 1/CanvasWidth ms.
Selections == { <<3, 5>> }

\* The segment onWaveSelection builds: the id is made from the unrounded
\* startMs, the times are floored.
ManualSegment(sel) ==
    [id |-> <<"manual", sel[1]>>, start_ms |-> sel[1] \div CanvasWidth,
     end_ms |-> sel[2] \div CanvasWidth, text |-> "Selected segment"]

\* `[...s, seg].sort((a, b) => a.start_ms - b.start_ms)`
MergeSegment(s, seg) ==
    LET all == Append(s, seg)
    IN  StableSort(all, [i \in DOMAIN all |-> all[i].start_ms])

\* At most MaxManual selections are committed in one run.
MaxManual == 1

ManualCount(s) ==
    Cardinality({i \in DOMAIN s : s[i].id[1] = "manual"})

-----------------------------------------------------------------------------
(* The list views. *)

\* VirtualList as PlayerComponent mounts it: itemHeight={56} height={640}.
itemHeight == 56
height == 640
\* FixedSizeList as Player mounts it: height={560} itemSize={56}.
windowHeight == 560
\* `const dur = 340`
dur == 340

Clamp(v, a, b) == Max(a, Min(b, v))

\* The items the scrollToIndex closure reads: useImperativeHandle is given
\* no dependencies, so the handle is the one created on the first render,
\* when PlayerComponent's segments are the empty initial state.
HandleItems == <<>>

\* `Math.max(0, items.length * itemHeight - outer.clientHeight)`
MaxScroll(items, h) == Max(0, Len(items) * itemHeight - h)

\* The target of scrollToIndex(i, align) in a list of n items of height ih
\* whose container is ch high, in half pixels (clientHeight / 2 and
\* itemHeight / 2 are not whole when the heights are odd):
\*   maxScroll = Math.max(0, items.length * itemHeight - outer.clientHeight)
\*   clamp(i * itemHeight - (align === "center"
\*           ? outer.clientHeight / 2 - itemHeight / 2 : 0), 0, maxScroll)
TargetHalfPx(n, ih, ch, i, align) ==
    Clamp(2 * i * ih - (IF align = "center" THEN ch - ih ELSE 0),
          0, 2 * Max(0, n * ih - ch))

\* The target of scrollToIndex(i, align) in PlayerComponent's list.
ScrollTarget(items, i, align) ==
    TargetHalfPx(Len(items), itemHeight, height, i, align) \div 2

\* A window without overscan.
VisibleRangeBare(st, ih, h, os, n) ==
    << Max(0, st \div ih), Min(n - 1, (st + h) \div ih) >>

\* startIndex and endIndex of a render with the scroll offset st:
\*   Math.max(0, Math.floor(scrollTop / itemHeight) - overscan)
\*   Math.min(items.length - 1, Math.floor((scrollTop + height) / itemHeight) + overscan)
VisibleRange(st, ih, h, os, n) ==
    << Max(0, st \div ih - os), Min(n - 1, (st + h) \div ih + os) >>

\* scrollToIndex(i, "center"): nothing when outerRef.current is null (the
\* list is unmounted); else the first frame of the animation is requested.
ScrollToIndex(R, i) ==
    IF ~mounted THEN R
    ELSE RequestFrame(R, AnimCallback(scrollTop,
                            ScrollTarget(HandleItems, i, "center") - scrollTop))

\* The times between the start of an animation and a frame, and between
\* frames (halves of dur).
FrameTimes == {340}

\* 1000 * (1 - cos(p * PI / 2)) at p = age / dur, clamped to [0, 1].
Ease(age) ==
    IF age >= dur THEN 1000
    ELSE IF age <= 0 THEN 0
    ELSE IF 2 * age = dur THEN 293
    ELSE IF 2 * age < dur THEN 76 ELSE 617

\* `outer.scrollTop = start + delta * ease`
AnimOffset(cb) == cb.start + (cb.delta * Ease(cb.age)) \div 1000

\* listRef.current.scrollToItem(segIdx, "center") of react-window: the row is
\* centred, within the scrollable range of the current item count.
ScrollToItem(items, i) ==
    Clamp(i * itemHeight - (windowHeight \div 2 - itemHeight \div 2),
          0, MaxScroll(items, windowHeight))

ViewportHeight == IF view = "Player" THEN windowHeight ELSE height

-----------------------------------------------------------------------------
(* The timing players: Player (react-window) and PlayerComponent. *)

\* An effect whose re-run cancels the pending frame and requests none.
RafEffectStops(R, idx, auto) == CancelRef(R)

\* The RAF effect of the timing players, re-run after a render in which one
\* of its dependencies [segments, autoScroll, currentIdx, timing] changed:
\* the cleanup cancels rafRef.current, the body requests a frame for a new
\* `loop` that closes over the render's currentIdx and autoScroll.
RafEffect(R, idx, auto) ==
    RequestFrameIntoRef(CancelRef(R), LoopCallback(<<>>, idx, auto))

AudioFiles == {"a.mp3"}

Offsets == {-2, 0}

\* The active index after PlayerComponent's handlers and Player's
\* initialSegments effect replaced the segment list: none of them calls
\* setCurrentIdx.
IndexAfterReplace(i) == i

\* A handler that forgets timing.setSegments: only the state is replaced.
ReplaceStateOnly(list, newIdx) ==
    /\ segments' = list
    /\ timing' = timing
    /\ currentIdx' = newIdx
    /\ SetRaf(RafEffect(Raf, newIdx, autoScroll))

\* setSegments(list) and timing.setSegments(list) of a mounted timing
\* player, and the RAF effect re-run for the new array.
ReplaceSegments(list, newIdx) ==
    /\ segments' = list
    /\ timing' = SetSegments(timing, list)
    /\ currentIdx' = newIdx
    /\ SetRaf(RafEffect(Raf, newIdx, autoScroll))

\* Player: the effect of a new initialSegments prop.
InitialSegmentsEffect ==
    /\ view = "Player" /\ mounted /\ batch = <<>>
    /\ \E list \in ParsedLists : ReplaceSegments(list, IndexAfterReplace(currentIdx))
    /\ last' = Did("other")
    /\ UNCHANGED <<view, mounted, cleanedUp, mediaVars, lrcVars, autoScroll,
                   offsetMs, scrollTop, ioVars, asideVars>>

\* Player.loadSegments(newSegments)
LoadSegments ==
    /\ view = "Player" /\ mounted /\ batch = <<>>
    /\ \E list \in ParsedLists : ReplaceSegments(list, -1)
    /\ last' = Did("other")
    /\ UNCHANGED <<view, mounted, cleanedUp, mediaVars, lrcVars, autoScroll,
                   offsetMs, scrollTop, ioVars, asideVars>>

\* Player.onClickLine(i)
OnClickLine ==
    /\ view = "Player" /\ mounted /\ batch = <<>>
    /\ \E i \in 0..Len(segments) - 1 :
          /\ audioEl
          /\ currentTime' = Item(segments, i).start_ms
          /\ currentIdx' = i
          /\ timing' = PushDrift(timing, 0)
          /\ SetRaf(IF i # currentIdx THEN RafEffect(Raf, i, autoScroll) ELSE Raf)
    /\ last' = Did("click")
    /\ UNCHANGED <<view, mounted, cleanedUp, audioEl, lrcVars, segments,
                   autoScroll, offsetMs, scrollTop, ioVars, asideVars>>

\* PlayerComponent: the click handler of a rendered row.
OnClickRow ==
    /\ view = "PlayerComponent" /\ mounted /\ batch = <<>>
    /\ \E i \in 0..Len(segments) - 1 :
          /\ audioEl
          /\ currentTime' = Item(segments, i).start_ms
          /\ currentTime' # currentTime
    /\ last' = Did("click")
    /\ UNCHANGED <<view, mounted, cleanedUp, audioEl, lrcVars, timingVars,
                   rafVars, ioVars, asideVars>>

\* The auto-scroll button of both timing players.
ToggleAutoScroll ==
    /\ view \in TimingViews /\ mounted /\ batch = <<>>
    /\ autoScroll' = ~autoScroll
    /\ SetRaf(RafEffect(Raf, currentIdx, ~autoScroll))
    /\ last' = Did("other")
    /\ UNCHANGED <<view, mounted, cleanedUp, mediaVars, lrcVars, segments,
                   currentIdx, offsetMs, timing, scrollTop, ioVars, asideVars>>

\* PlayerComponent: the manual offset input, and the effect that hands the
\* new offsetMs to the TimingCore.
SetOffsetMs ==
    /\ view = "PlayerComponent" /\ mounted /\ batch = <<>>
    /\ \E ms \in Offsets \ {offsetMs} :
          /\ offsetMs' = ms
          /\ timing' = SetOffset(timing, ms)
    /\ last' = Did("other")
    /\ UNCHANGED <<view, mounted, cleanedUp, mediaVars, lrcVars, segments,
                   currentIdx, autoScroll, rafVars, ioVars, asideVars>>

\* PlayerComponent.onAudioFileInput up to `await loadSegmentsFromCache`.
OnAudioFileInput ==
    /\ view = "PlayerComponent" /\ mounted /\ batch = <<>>
    /\ \E f \in AudioFiles :
          /\ audioFile' = f
          /\ pending' = pending \cup {[kind |-> "cacheRead", file |-> f]}
    /\ last' = Did("other")
    /\ UNCHANGED <<view, mounted, cleanedUp, mediaVars, lrcVars, timingVars,
                   rafVars, cache, asideVars>>

\* The state setters of a continuation: they do nothing once the component
\* is unmounted, while timing.setSegments always stores the list.
ContinuationReplaces(list) ==
    IF mounted
    THEN ReplaceSegments(list, IndexAfterReplace(currentIdx))
    ELSE /\ timing' = SetSegments(timing, list)
         /\ UNCHANGED <<segments, currentIdx, rafRef, frames, batch>>

\* What the cache may hold under a name: lib/db.ts is not among the sources
\* and the store outlives the session, so a hit is any list an earlier
\* cacheSegments call was given.
CachedLists == {InferEnds(l) : l \in ParsedLists}

\* loadSegmentsFromCache answers: the rest of onAudioFileInput.  A failure
\* is caught and a miss skipped; a hit replaces the segments.
CacheAnswer ==
    /\ batch = <<>>
    /\ \E op \in {o \in pending : o.kind = "cacheRead"} :
          /\ pending' = pending \ {op}
          /\ \/ /\ \E cached \in CachedLists : ContinuationReplaces(cached)
                /\ last' = Did("other")
             \/ /\ UNCHANGED <<segments, currentIdx, timing, rafRef, frames, batch>>
                /\ last' = Did("other")
    /\ UNCHANGED <<view, mounted, cleanedUp, mediaVars, lrcVars, autoScroll,
                   offsetMs, scrollTop, audioFile, cache, asideVars>>

\* PlayerComponent.onLrcFileInput up to `await f.text()`.  The audioFile the
\* continuation closes over only names the cache entry it writes, and the
\* store is outside this model.
OnLrcFileInput ==
    /\ view = "PlayerComponent" /\ mounted /\ batch = <<>>
    /\ pending' = pending \cup {[kind |-> "lrcRead", file |-> NoFile]}
    /\ last' = Did("other")
    /\ UNCHANGED <<view, mounted, cleanedUp, mediaVars, lrcVars, timingVars,
                   rafVars, audioFile, cache, asideVars>>

\* The text is read: parse, infer the ends, set the segments, and hand them
\* to cacheSegments under the audio file's name (its failure is caught; the
\* store itself is outside this model).
LrcTextRead ==
    /\ batch = <<>>
    /\ \E op \in {o \in pending : o.kind = "lrcRead"} :
       \E parsed \in ParsedLists :
          LET segs == InferEnds(parsed)
          IN  /\ pending' = pending \ {op}
              /\ ContinuationReplaces(segs)
              /\ cache' = cache
    /\ last' = Did("other")
    /\ UNCHANGED <<view, mounted, cleanedUp, mediaVars, lrcVars, autoScroll,
                   offsetMs, scrollTop, audioFile, asideVars>>

\* PlayerComponent.onWaveSelection(startMs, endMs)
OnWaveSelection ==
    /\ view = "PlayerComponent" /\ mounted /\ batch = <<>>
    /\ ManualCount(segments) < MaxManual
    /\ \E sel \in Selections :
          ReplaceSegments(MergeSegment(segments, ManualSegment(sel)),
                          IndexAfterReplace(currentIdx))
    /\ last' = Did("other")
    /\ UNCHANGED <<view, mounted, cleanedUp, mediaVars, lrcVars, autoScroll,
                   offsetMs, scrollTop, ioVars, asideVars>>

\* The user scrolls the list.
UserScroll ==
    /\ view \in TimingViews /\ mounted /\ batch = <<>>
    /\ \E top \in {0, MaxScroll(segments, ViewportHeight)} \ {scrollTop} :
          scrollTop' = top
    /\ last' = Did("other")
    /\ UNCHANGED <<view, mounted, cleanedUp, mediaVars, lrcVars, timingVars,
                   rafRef, frames, batch, ioVars, asideVars>>

\* A mutant of ScrollWanted: the tick scrolls whatever autoScroll says.
ScrollAlwaysWanted(auto, found) == found >= 0 /\ mounted

\* `autoScroll && idx >= 0 && listRef.current`
ScrollWanted(auto, found) == auto /\ found >= 0 /\ mounted

\* A mutant of LookupAt: the tick looks up without the offset.
LookupWithoutOffset(tc, playbackMs) ==
    GetCurrentSegmentIndex(SetOffset(tc, 0), playbackMs)

\* `timing.getCurrentSegmentIndex(playbackMs)` as the tick calls it.
LookupAt(tc, playbackMs) == GetCurrentSegmentIndex(tc, playbackMs)

\* One call of `loop` of a timing player; R is the frame state with the
\* callback taken off the batch.
TimingLoop(cb, R) ==
    IF MediaMissing THEN
        /\ SetRaf(RequestFrameIntoRef(R, cb))
        /\ last' = Did("tick-no-media")
        /\ UNCHANGED <<segments, currentIdx, autoScroll, offsetMs, timing, scrollTop>>
    ELSE
        LET playbackMs == currentTime
            found   == LookupAt(timing, playbackMs)
            changed == IndexChanged(found, cb.idx)
            scroll  == changed /\ ScrollWanted(cb.auto, found)
            newIdx  == IF changed /\ mounted THEN found ELSE currentIdx
            R1 == IF scroll /\ view = "PlayerComponent"
                  THEN ScrollToIndex(R, found) ELSE R
            R2 == RequestFrameIntoRef(R1, cb)
            R3 == IF newIdx # currentIdx
                  THEN RafEffect(R2, newIdx, autoScroll) ELSE R2
        IN  /\ timing' = PushDrift(timing, TickDrift)
            /\ currentIdx' = newIdx
            /\ scrollTop' = IF scroll /\ view = "Player"
                            THEN ScrollToItem(segments, found) ELSE scrollTop
            /\ SetRaf(R3)
            /\ last' = TickDid(newIdx, currentIdx)
            /\ UNCHANGED <<segments, autoScroll, offsetMs>>

\* A `frame` that requests the next frame whatever p is.
AnimLoopForever(cb, R) ==
    /\ scrollTop' = AnimOffset(cb)
    /\ SetRaf(RequestFrame(R, cb))
    /\ last' = Did("other")

\* One call of `frame` of a scroll animation.
AnimLoop(cb, R) ==
    /\ scrollTop' = AnimOffset(cb)
    /\ SetRaf(IF cb.age < dur THEN RequestFrame(R, cb) ELSE R)
    /\ last' = Did("other")

-----------------------------------------------------------------------------
(* Frames, the media clock, mounting and unmounting. *)

\* The browser starts a frame: the callbacks requested so far become its
\* batch; `elapsed` is the time since the previous frame (for a new
\* animation, since its t0).
BeginFrame ==
    /\ batch = <<>> /\ frames # <<>>
    /\ \E elapsed \in FrameTimes :
          batch' = [i \in DOMAIN frames |->
                      IF frames[i].kind = "anim"
                      THEN [frames[i] EXCEPT !.age = Min(@ + elapsed, dur)]
                      ELSE frames[i]]
    /\ frames' = <<>>
    /\ UNCHANGED <<view, mounted, cleanedUp, mediaVars, lrcVars, timingVars,
                   rafRef, scrollTop, ioVars, last, asideVars>>

\* The frame state once the head of the batch has been taken to be called:
\* its handle is used up.
Taken ==
    [ref    |-> IF rafRef = Head(batch).id THEN Stale ELSE rafRef,
     frames |-> frames,
     batch  |-> Tail(batch)]

\* The frame calls a callback of a tick loop.
Tick ==
    /\ batch # <<>> /\ Head(batch).kind = "loop"
    /\ IF view \in LrcViews
       THEN LrcLoop(Head(batch), Taken) /\ UNCHANGED <<timingVars, scrollTop>>
       ELSE TimingLoop(Head(batch), Taken) /\ UNCHANGED lrcVars
    /\ UNCHANGED <<view, mounted, cleanedUp, mediaVars, ioVars, asideVars>>

\* The frame calls a callback of a scroll animation.
AnimationStep ==
    /\ batch # <<>> /\ Head(batch).kind = "anim"
    /\ AnimLoop(Head(batch), Taken)
    /\ UNCHANGED <<view, mounted, cleanedUp, mediaVars, lrcVars, timingVars,
                   ioVars, asideVars>>

\* The media element plays, pauses, seeks or stalls: its position changes.
MediaClock ==
    /\ mounted /\ batch = <<>>
    /\ \E t \in ClockValues \ {currentTime} : currentTime' = t
    /\ last' = Did("other")
    /\ UNCHANGED <<view, mounted, cleanedUp, audioEl, lrcVars, timingVars,
                   rafVars, ioVars, asideVars>>

\* The view is removed: React detaches the refs of its elements; the
\* cleanups of its effects run afterwards (Teardown).
Unmount ==
    /\ mounted /\ batch = <<>>
    /\ mounted' = FALSE
    /\ audioEl' = FALSE
    /\ last' = Did("other")
    /\ UNCHANGED <<view, cleanedUp, currentTime, lrcVars, timingVars, rafVars,
                   ioVars, asideVars>>

\* The cleanups of the unmounted view's effects, in the order the effects
\* are declared.
\*   AMLP: the RAF sync effect's, then the unmount effect's
\*         (mountedRef.current = false; if (rafRef.current) cancel).
\*   PlayerJsx: the RAF sync effect's.
\*   Player, PlayerComponent: if (rafRef.current) cancel.
Teardown ==
    /\ ~mounted /\ ~cleanedUp /\ batch = <<>>
    /\ cleanedUp' = TRUE
    /\ SetRaf(IF view = "AMLP" THEN CancelRef(LrcCleanup(Raf, lyrics))
              ELSE IF view = "PlayerJsx" THEN LrcCleanup(Raf, lyrics)
              ELSE CancelRef(Raf))
    /\ mountedRef' = IF view = "AMLP" THEN FALSE ELSE mountedRef
    /\ last' = Did("other")
    /\ UNCHANGED <<view, mounted, mediaVars, lyrics, index, currentIndexRef,
                   timingVars, scrollTop, ioVars, asideVars>>

\* The state after the view is mounted and its effects have run.
Init ==
    /\ view \in Views
    /\ mounted = TRUE /\ cleanedUp = FALSE
    /\ audioEl = TRUE /\ currentTime = 0
    /\ lyrics = <<>> /\ index = -1 /\ currentIndexRef = -1 /\ mountedRef = TRUE
    /\ segments \in (IF view = "Player" THEN ParsedLists ELSE {<<>>})
    /\ currentIdx = -1 /\ autoScroll = TRUE /\ offsetMs = 0
    /\ timing = SetSegments(TimingCoreNew, segments)
    /\ LET R == IF view \in TimingViews
                THEN RafEffect([ref |-> 0, frames |-> <<>>, batch |-> <<>>], -1, TRUE)
                ELSE [ref |-> 0, frames |-> <<>>, batch |-> <<>>]
       IN  rafRef = R.ref /\ frames = R.frames /\ batch = R.batch
    /\ scrollTop = 0
    /\ pending = {} /\ audioFile = NoFile
    /\ cache = [f \in AudioFiles |-> <<>>]
    /\ last = Did("other")
    /\ AsideIdle

Next ==
    \/ OnLrcFile
    \/ OnPasteLrc
    \/ LoadSample
    \/ InitialSegmentsEffect
    \/ LoadSegments
    \/ OnClickLine
    \/ OnClickRow
    \/ ToggleAutoScroll
    \/ SetOffsetMs
    \/ OnAudioFileInput
    \/ CacheAnswer
    \/ OnLrcFileInput
    \/ LrcTextRead
    \/ OnWaveSelection
    \/ UserScroll
    \/ BeginFrame
    \/ Tick
    \/ AnimationStep
    \/ MediaClock
    \/ Unmount
    \/ Teardown

Spec == Init /\ [][Next]_vars

-----------------------------------------------------------------------------
(* What the claims are stated with. *)

\* The start times of a segment list, as the lookup reads them.
Starts(list) == [i \in 1..Len(list) |-> [time |-> list[i].start_ms]]

\* The index a naive scan finds in the list the view holds, at the media
\* clock's position plus the offset the user has set.
ExpectedIndex ==
    IF view \in LrcViews THEN LinearScan(lyrics, currentTime)
    ELSE LinearScan(Starts(segments), currentTime + offsetMs)

\* The next step is a call of a tick-loop callback (nothing else is enabled
\* while a loop callback heads the batch of the running frame).
TickRuns == batch # <<>> /\ Head(batch).kind = "loop"

TickedWithMedia == {"tick", "tick-changed", "tick-after-click"}

AnimCount(fs) == Cardinality({i \in DOMAIN fs : fs[i].kind = "anim"})

\* A step in which a scroll was started: scrollToIndex requested the first
\* frame of an animation, or scrollToItem moved the react-window list.
ScrollStarted ==
    \/ AnimCount(frames') > AnimCount(frames)
    \/ view = "Player" /\ scrollTop' # scrollTop

\* The loop callbacks that would run their body if called now.
LiveLoops == {cb \in LoopCallbacks(Raf) : ~LoopReturnsAtOnce(cb)}

-----------------------------------------------------------------------------
(* The claims about the players. *)

(* C2: in every reachable state of a player the active index is -1 or an    *)
(* index of the list the view holds: it lies in -1..length-1.               *)
ActiveIndexInRange == ActiveIndex \in -1..Len(HeldList) - 1

(* C3: every step that replaces the list the view holds leaves the active   *)
(* index at -1 in that same step.                                           *)
ReplacingTheListResetsTheIndex ==
    [][HeldList' # HeldList => ActiveIndex' = -1]_vars

\* While the view holds no segment there is no active index.
EmptyListHasNoActiveIndex == HeldList = <<>> => ActiveIndex = -1

\* A lookup at a negative effective time finds nothing in a list whose
\* start times are all >= 0.
NegativeEffectiveTimeFindsNothing ==
    view \in TimingViews /\ EffectiveTime(timing, currentTime) < 0
    /\ (\A i \in DOMAIN timing.segments : timing.segments[i].start_ms >= 0)
        => LookupAt(timing, currentTime) = -1

(* C4: whenever the held list is empty the active index is -1 (from the     *)
(* step that emptied the list on, ticks included), and a lookup at a        *)
(* negative effective time playbackMs + offsetMs returns -1.                *)
EmptyListOrNegativeTimeGivesNoIndex ==
    EmptyListHasNoActiveIndex /\ NegativeEffectiveTimeFindsNothing

NoTickAfterTeardown ==
    /\ [](cleanedUp => LiveLoops = {})
    /\ [](Cardinality(LiveLoops) <= 1)
    /\ [](\A cb \in LiveLoops :
             IF view \in LrcViews THEN cb.lyrics = lyrics
             ELSE cb.idx = currentIdx /\ cb.auto = autoScroll)
    /\ [][cleanedUp /\ TickRuns =>
            /\ frames' = frames
            /\ UNCHANGED <<index, currentIndexRef, currentIdx, timing, scrollTop>>]_vars

\* A view torn down after a tick of its loop had run with a media element
\* (it pushed its drift sample) and highlighted a row: no loop callback is
\* left.
TornDownAfterTicks ==
    /\ cleanedUp /\ currentIdx >= 0
    /\ \E i \in DOMAIN timing.driftSamples : timing.driftSamples[i] = TickDrift
    /\ LoopCallbacks(Raf) = {}

(* C8: a tick that finds no media element pushes no drift sample, leaves    *)
(* the active index, the lists and the scroll offset as they are, and       *)
(* requests exactly one frame: the loop callback itself.                    *)
TickWithoutMediaOnlyReschedules ==
    [][TickRuns /\ ~audioEl /\ ~LoopReturnsAtOnce(Head(batch)) =>
         /\ timing' = timing
         /\ UNCHANGED <<index, currentIndexRef, currentIdx, scrollTop,
                        lyrics, segments>>
         /\ batch' = Tail(batch)
         /\ frames' = Append(frames, [Head(batch) EXCEPT !.id = rafRef'])]_vars

\* A tick without a media element has just run in a view that had an active
\* row; the newest drift sample is still the one of the click-to-seek, not
\* a tick's, and the loop has its one callback pending.
TickedWithoutMedia ==
    /\ view \in TimingViews /\ last = "tick-no-media"
    /\ currentIdx >= 0
    /\ timing.driftSamples # <<>>
    /\ timing.driftSamples[Len(timing.driftSamples)] # TickDrift
    /\ Cardinality(LoopCallbacks(Raf)) = 1

(* C9: while auto-scroll is suppressed, a tick that observes an index       *)
(* change sets the active index to the new value and starts no scroll: the  *)
(* scroll offset stays.                                                     *)
SuppressedTickHighlightsWithoutScroll ==
    [][TickRuns /\ view \in TimingViews /\ audioEl /\ ~autoScroll
          /\ ExpectedIndex # currentIdx =>
         /\ currentIdx' = ExpectedIndex
         /\ scrollTop' = scrollTop
         /\ ~ScrollStarted]_vars

\* With auto-scroll suppressed a tick has just moved the highlight to a row
\* the list is not scrolled to.
HighlightMovedWithoutScroll ==
    /\ view = "Player" /\ last \in {"tick-changed", "tick-after-click"}
    /\ ~autoScroll /\ currentIdx >= 0
    /\ scrollTop # ScrollToItem(segments, currentIdx)

(* C10: every lookup of a tick is made at playbackMs + o for the offset o   *)
(* set last; setting the offset changes neither the segment list nor the    *)
(* active index.                                                            *)
TickUsesLatestOffset ==
    /\ [][TickRuns /\ view = "PlayerComponent" /\ audioEl =>
            currentIdx' = LinearScan(Starts(segments), currentTime + offsetMs)]_vars
    /\ [][offsetMs' # offsetMs =>
            /\ timing'.offsetMs = offsetMs'
            /\ segments' = segments /\ timing'.segments = timing.segments
            /\ currentIdx' = currentIdx]_vars

\* A tick has just followed a non-zero offset to an index the playback
\* position alone would not give.
TickFollowedOffset ==
    /\ view = "PlayerComponent" /\ last = "tick-changed" /\ offsetMs # 0
    /\ currentIdx # LinearScan(Starts(segments), currentTime)

-----------------------------------------------------------------------------
(* The drift buffer on its own: a TimingCore of every capacity up to        *)
(* MaxCapacity, the samples the ticks and the clicks push, and the history  *)
(* of what was pushed.                                                      *)

\* The buffers checked hold at most 1..MaxCapacity samples.
MaxCapacity == 3
\* A tick's sample, performance.now() - playbackMs, is one of 1..MaxDrift.
MaxDrift == 2
\* At most MaxPushes samples are pushed in one run.
MaxPushes == 4

\* The views that own a TimingCore, with everything but the core at rest.
DriftInit ==
    /\ view \in TimingViews
    /\ mounted = TRUE /\ cleanedUp = FALSE
    /\ audioEl = TRUE /\ currentTime \in ClockValues
    /\ lyrics = <<>> /\ index = -1 /\ currentIndexRef = -1 /\ mountedRef = TRUE
    /\ segments \in {l \in ParsedLists : Len(l) <= MaxLen}
    /\ currentIdx = -1 /\ autoScroll = TRUE /\ offsetMs \in Offsets
    /\ \E capacity \in 1..MaxCapacity :
           timing = SetOffset(SetSegments(TimingCoreOf(capacity), segments),
                              offsetMs)
    /\ rafRef = 0 /\ frames = <<>> /\ batch = <<>> /\ scrollTop = 0
    /\ pending = {} /\ audioFile = NoFile
    /\ cache = [f \in AudioFiles |-> <<>>]
    /\ last = Did("other")
    /\ SearchIdle /\ DriftIdle /\ WaveIdle /\ ListIdle /\ ParseIdle /\ BlobIdle
    /\ RowIdle

\* `timing.pushDrift(performance.now() - playbackMs)` of a tick.
DriftTick ==
    /\ Len(pushed) < MaxPushes
    /\ \E sample \in 1..MaxDrift :
           /\ timing' = PushDrift(timing, sample)
           /\ pushed' = Append(pushed, sample)
    /\ last' = Did("tick")
    /\ UNCHANGED <<view, mounted, cleanedUp, mediaVars, lrcVars, segments,
                   currentIdx, autoScroll, offsetMs, rafVars, ioVars,
                   searchVars, waveVars, listVars, parseVars,
                   blobVars, rowVars>>

\* `timing.pushDrift(0)` of Player.onClickLine.
DriftClick ==
    /\ view = "Player"
    /\ Len(pushed) < MaxPushes
    /\ timing' = PushDrift(timing, 0)
    /\ pushed' = Append(pushed, 0)
    /\ last' = Did("click")
    /\ UNCHANGED <<view, mounted, cleanedUp, mediaVars, lrcVars, segments,
                   currentIdx, autoScroll, offsetMs, rafVars, ioVars,
                   searchVars, waveVars, listVars, parseVars,
                   blobVars, rowVars>>

DriftNext == DriftTick \/ DriftClick

SpecDrift == DriftInit /\ [][DriftNext]_vars

\* The last min(n, Len(s)) elements of s, in their order.
LastOf(s, n) == SubSeq(s, Len(s) - Min(n, Len(s)) + 1, Len(s))

\* The results of the lookup at every playback position.
Lookups(tc) == [t \in ClockValues |-> GetCurrentSegmentIndex(tc, t)]

(* C11: the drift buffer never holds more than its capacity; after k pushes *)
(* it holds the most recent min(k, capacity) samples in arrival order; and  *)
(* a push leaves the result of every lookup as it was.                      *)
DriftBufferKeepsNewestSamples ==
    /\ [](/\ Len(timing.driftSamples) <= timing.capacity
          /\ timing.driftSamples = LastOf(pushed, timing.capacity))
    /\ [][pushed' # pushed => Lookups(timing') = Lookups(timing)]_vars

\* More samples were pushed than the buffer holds, the evicted one differs
\* from the ones kept, and the buffer holds more than one sample.
DriftEvictedOldest ==
    /\ timing.capacity > 1
    /\ Len(pushed) > timing.capacity
    /\ pushed[1] # pushed[Len(pushed)]
    /\ pushed[Len(pushed) - 1] # pushed[Len(pushed)]
    /\ timing.driftSamples[timing.capacity] = pushed[Len(pushed)]
    /\ last = "click"
    /\ \E t \in ClockValues : GetCurrentSegmentIndex(timing, t) >= 0

-----------------------------------------------------------------------------
(* The waveform editor inside PlayerComponent: the decode effect, the       *)
(* pointer handlers, and onWaveSelection, which a release calls.  The file  *)
(* prop is changed by the parent's render; clearing it is a change that a   *)
(* parent other than PlayerComponent can make.                              *)

WaveFiles == {"a.mp3", "b.mp3"}

\* buf.duration * 1000 of the decoded file.
FileDuration == [f \in WaveFiles |-> IF f = "a.mp3" THEN 2 ELSE 1]

\* At most MaxEmitted selections are committed in one run.
MaxEmitted == 1

\* The pointer positions, clientX - rect.left: left of, on and right of the
\* canvas.
Pixels == -1..CanvasWidth + 1

\* toMs(clientX), in 1/CanvasWidth ms (PixelMs: in 1/width ms):
\*   frac = min(1, max(0, (clientX - rect.left) / rect.width))
\*   audioBufRef.current ? audioBufRef.current.duration * 1000 * frac : 0
PixelMs(x, width, durationMs) == durationMs * Min(width, Max(0, x))

ToMs(x, buf) ==
    IF buf = NoFile THEN 0
    ELSE PixelMs(x, CanvasWidth, FileDuration[buf])

\* A cleanup that leaves the decodes of its run running.
CancelNoDecode(ds) == ds

\* The cleanup of the decode effect: `cancelled = true` (at most one run has
\* its `cancelled` still false).
CancelDecodes(ds) == {[d EXCEPT !.cancelled = TRUE] : d \in ds}

\* The body of the decode effect for the file prop f.
DecodeEffect(f, ds) ==
    IF f = NoFile THEN ds
    ELSE ds \cup {[file |-> f, cancelled |-> FALSE]}

\* A pointer move that also moves the anchor.
MoveBothEnds(sel, t) == <<t, t>>

\* `selRef.current.b = toMs(e.clientX)`
MoveEnd(sel, t) == <<sel[1], t>>

\* PlayerComponent mounted with its editor, the effects run, no file chosen.
WaveInit ==
    /\ view = "PlayerComponent"
    /\ mounted = TRUE /\ cleanedUp = FALSE
    /\ audioEl = TRUE /\ currentTime = 0
    /\ lyrics = <<>> /\ index = -1 /\ currentIndexRef = -1 /\ mountedRef = TRUE
    /\ segments = <<>>
    /\ currentIdx = -1 /\ autoScroll = TRUE /\ offsetMs = 0
    /\ timing = SetSegments(TimingCoreNew, segments)
    /\ LET R == RafEffect([ref |-> 0, frames |-> <<>>, batch |-> <<>>], -1, TRUE)
       IN  rafRef = R.ref /\ frames = R.frames /\ batch = R.batch
    /\ scrollTop = 0
    /\ pending = {} /\ audioFile = NoFile
    /\ cache = [f \in AudioFiles |-> <<>>]
    /\ last = Did("other")
    /\ SearchIdle /\ DriftIdle /\ WaveIdle /\ ListIdle /\ ParseIdle /\ BlobIdle
    /\ RowIdle

\* The editor is rendered with another file prop: the cleanup of the decode
\* effect runs, then its body.
WaveFileChange ==
    /\ mounted
    /\ \E f \in (WaveFiles \cup {NoFile}) \ {audioFile} :
          /\ audioFile' = f
          /\ decodes' = DecodeEffect(f, CancelDecodes(decodes))
          /\ audioBuf' = IF f = NoFile THEN NoFile ELSE audioBuf
          /\ duration' = IF f = NoFile THEN 0 ELSE duration
    /\ last' = Did("file")
    /\ UNCHANGED <<view, mounted, cleanedUp, mediaVars, lrcVars, timingVars,
                   rafVars, pending, cache, searchVars, driftVars, dragging,
                   selRef, pointerX, emitted, listVars, parseVars,
                   blobVars, rowVars>>

\* decodeAudioData resolves: `if (cancelled) return`, else the buffer and
\* the duration are stored.
DecodeDone ==
    /\ \E d \in decodes :
          /\ decodes' = decodes \ {d}
          /\ IF d.cancelled
             THEN /\ UNCHANGED <<audioBuf, duration>>
                  /\ last' = Did("discarded")
             ELSE /\ audioBuf' = d.file
                  /\ duration' = FileDuration[d.file]
                  /\ last' = Did("decoded")
    /\ UNCHANGED <<view, mounted, cleanedUp, mediaVars, lrcVars, timingVars,
                   rafVars, ioVars, searchVars, driftVars, dragging, selRef,
                   pointerX, emitted, listVars, parseVars,
                   blobVars, rowVars>>

\* decodeAudioData rejects: the catch logs a warning.
DecodeFails ==
    /\ \E d \in decodes : decodes' = decodes \ {d}
    /\ last' = Did("failed")
    /\ UNCHANGED <<view, mounted, cleanedUp, mediaVars, lrcVars, timingVars,
                   rafVars, ioVars, searchVars, driftVars, audioBuf, duration,
                   dragging, selRef, pointerX, emitted, listVars, parseVars,
                   blobVars, rowVars>>

\* onPointerDown
PointerDown ==
    /\ mounted /\ Len(emitted) < MaxEmitted
    /\ \E x \in Pixels :
          /\ pointerX' = x
          /\ dragging' = TRUE
          /\ selRef' = <<ToMs(x, audioBuf), ToMs(x, audioBuf)>>
    /\ last' = Did("press")
    /\ UNCHANGED <<view, mounted, cleanedUp, mediaVars, lrcVars, timingVars,
                   rafVars, ioVars, searchVars, driftVars, audioBuf, duration,
                   decodes, emitted, listVars, parseVars,
                   blobVars, rowVars>>

\* onPointerMove
PointerMove ==
    /\ mounted
    /\ \E x \in Pixels :
          /\ pointerX' = x
          /\ selRef' = IF ~dragging \/ selRef = <<>> THEN selRef
                       ELSE MoveEnd(selRef, ToMs(x, audioBuf))
    /\ last' = Did("move")
    /\ UNCHANGED <<view, mounted, cleanedUp, mediaVars, lrcVars, timingVars,
                   rafVars, ioVars, searchVars, driftVars, audioBuf, duration,
                   decodes, dragging, emitted, listVars, parseVars,
                   blobVars, rowVars>>

\* onPointerUp, and PlayerComponent.onWaveSelection which it calls through
\* onSelectionRef.current.
PointerUp ==
    /\ mounted
    /\ \E x \in Pixels :
          /\ pointerX' = x
          /\ IF ~dragging \/ selRef = <<>>
             THEN UNCHANGED <<dragging, selRef, emitted, timingVars, rafVars>>
             ELSE LET sel == MoveEnd(selRef, ToMs(x, audioBuf))
                      a   == Min(sel[1], sel[2])
                      b   == Max(sel[1], sel[2])
                  IN  /\ dragging' = FALSE
                      /\ selRef' = sel
                      /\ emitted' = Append(emitted, <<a, b>>)
                      /\ ReplaceSegments(
                             MergeSegment(segments, ManualSegment(<<a, b>>)),
                             IndexAfterReplace(currentIdx))
                      /\ UNCHANGED <<autoScroll, offsetMs, scrollTop>>
    /\ last' = Did("release")
    /\ UNCHANGED <<view, mounted, cleanedUp, mediaVars, lrcVars, ioVars,
                   searchVars, driftVars, audioBuf, duration, decodes,
                   listVars, parseVars,
                   blobVars, rowVars>>

\* The view is unmounted: the cleanups run (`cancelled = true`, the pointer
\* listeners removed, the frame of the tick loop cancelled).
WaveUnmount ==
    /\ mounted
    /\ mounted' = FALSE /\ cleanedUp' = TRUE
    /\ decodes' = CancelDecodes(decodes)
    /\ SetRaf(CancelRef(Raf))
    /\ last' = Did("unmount")
    /\ UNCHANGED <<view, mediaVars, lrcVars, timingVars, scrollTop, ioVars,
                   searchVars, driftVars, audioBuf, duration, dragging, selRef,
                   pointerX, emitted, listVars, parseVars,
                   blobVars, rowVars>>

WaveNext ==
    \/ WaveFileChange
    \/ DecodeDone
    \/ DecodeFails
    \/ PointerDown
    \/ PointerMove
    \/ PointerUp
    \/ WaveUnmount

SpecWave == WaveInit /\ [][WaveNext]_vars

(* C12: the audio buffer and the duration are written only by a decode of   *)
(* the file that is the editor's file when the decode completes, in a       *)
(* mounted editor (or reset when the file is cleared): a decode started for *)
(* a file since replaced, cleared or unmounted writes nothing.              *)
DecodeWritesOnlyCurrentFile ==
    [][(audioBuf' # audioBuf \/ duration' # duration \/ last' = "decoded") =>
          \/ audioFile' = NoFile /\ audioBuf' = NoFile /\ duration' = 0
          \/ /\ mounted /\ audioFile' = audioFile /\ audioFile # NoFile
             /\ audioBuf' = audioFile
             /\ duration' = FileDuration[audioFile]]_vars

\* The decode of a replaced file completed after the decode of the current
\* file, and was discarded.
SupersededDecodeDiscarded ==
    /\ last = "discarded"
    /\ audioFile = "b.mp3" /\ audioBuf = "b.mp3"
    /\ duration = FileDuration["b.mp3"]
    /\ decodes = {}

\* The time of the pointer event of a step.
EventMs == ToMs(pointerX', audioBuf)

\* The pointer is pressed: a press came and no release since.
Pressed == dragging /\ selRef # <<>>

(* C15: a press sets the anchor and the moving end to the pressed time; a   *)
(* move while pressed changes the moving end only; a release while pressed  *)
(* emits exactly one selection, (min(anchor, end), max(anchor, end)); a     *)
(* move or a release without a press emits nothing and leaves the           *)
(* selection as it was; nothing else emits.                                 *)
GestureIsPressDragRelease ==
    /\ [][last' = "press" =>
            /\ dragging' /\ selRef' = <<EventMs, EventMs>>
            /\ emitted' = emitted]_vars
    /\ [][last' = "move" /\ Pressed =>
            /\ dragging' /\ selRef' = <<selRef[1], EventMs>>
            /\ emitted' = emitted]_vars
    /\ [][last' = "release" /\ Pressed =>
            /\ ~dragging'
            /\ emitted' = Append(emitted, <<Min(selRef[1], EventMs),
                                            Max(selRef[1], EventMs)>>)]_vars
    /\ [][last' \in {"move", "release"} /\ ~Pressed =>
            /\ emitted' = emitted /\ selRef' = selRef /\ dragging' = dragging
            /\ segments' = segments]_vars
    /\ [][emitted' # emitted => last' = "release"]_vars

\* A drag to the left was released: the selection emitted is the moving end
\* and the anchor, in that order; a move came after the release.
LeftwardDragEmitted ==
    /\ last = "move" /\ ~dragging
    /\ Len(emitted) = 1
    /\ selRef[2] < selRef[1]
    /\ emitted[1] = <<selRef[2], selRef[1]>>

\* The segment made from the selection a step emits.
CommittedSegment == ManualSegment(emitted'[Len(emitted')])

\* The committed segment lies within the waveform shown.
CommittedWithinDuration ==
    [][emitted' # emitted =>
          /\ 0 <= CommittedSegment.start_ms
          /\ CommittedSegment.start_ms <= CommittedSegment.end_ms
          /\ CommittedSegment.end_ms <= duration]_vars

\* Press and release at different times give a segment that is not empty.
DistinctTimesGiveProperSegment ==
    [][emitted' # emitted /\ selRef[1] # EventMs =>
          CommittedSegment.start_ms < CommittedSegment.end_ms]_vars

(* C16: every segment made from a committed selection has                   *)
(* 0 <= start_ms <= end_ms <= durationMs, whatever the direction of the     *)
(* drag and the pointer positions; press and release at different times     *)
(* give start_ms < end_ms, as a drag from pixel 10 to pixel 5 on a 300 px,  *)
(* 10000 ms waveform does.                                                  *)
CommittedSegmentIsValid ==
    /\ CommittedWithinDuration
    /\ DistinctTimesGiveProperSegment
    /\ [](PixelMs(5, 300, 10000) \div 300 < PixelMs(10, 300, 10000) \div 300)

-----------------------------------------------------------------------------
(* Segment lists on their own: the three parseLRC functions applied to the  *)
(* texts of a bounded set, and onWaveSelection merging selections into the  *)
(* list PlayerComponent holds after a lyrics file was loaded.               *)

\* A text has at most MaxLines lines.
MaxLines == 2
\* At most MaxMerges selections are merged in one run.
MaxMerges == 2

\* The lines: up to two stamps of the times 0 and 1, and a text or none.
StampLists == {<<>>} \cup {<<t>> : t \in 0..1} \cup
              {<<t, u>> : t \in 0..1, u \in 0..1}
LineTexts == {<<>>, <<"a">>, <<"b">>}
ParseLines == {LrcLine(st, tx) : st \in StampLists, tx \in LineTexts}
ParseTexts == UNION {[1..n -> ParseLines] : n \in 0..MaxLines}

\* The components that have a parseLRC: "AMLP2" is the second
\* AppleMusicLyricsPlayer, of which only the parser is modelled.
Parsers == {"AMLP", "AMLP2", "PlayerJsx"}

ParseBy(parser, text) ==
    IF parser = "AMLP" THEN ParseLRC(text)
    ELSE IF parser = "AMLP2" THEN ParseLRCSecond(text)
    ELSE ParseLRCJsx(text)

\* A parsed list without ends, with room after its last start.
OpenEndedList == << Segment(<<"seg", 1>>, 0, NoEnd), Segment(<<"seg", 2>>, 2, NoEnd) >>

\* The example of the post-processing: starts [0, 4000, 8500], no ends.
ExampleList ==
    << Segment(<<"seg", 1>>, 0, NoEnd), Segment(<<"seg", 2>>, 4000, NoEnd),
       Segment(<<"seg", 3>>, 8500, NoEnd) >>

\* The ends a parsed segment comes with: absent, 0 (never after the start)
\* and MaxTime (after every start but the latest).
ParsedEnds == {NoEnd, 0, MaxTime}

\* What parseAnyToSegments returns to onLrcFileInput: lists in start order
\* of at most MaxLen segments.
InferLists ==
    {l \in UNION {[1..n -> [id : {<<"seg", 0>>}, start_ms : 0..MaxTime,
                            end_ms : ParsedEnds, text : {"line"}]] : n \in 0..MaxLen} :
        \A i \in 1..Len(l) - 1 : l[i].start_ms <= l[i + 1].start_ms}

\* The i-th segment of a parsed list carries the id seg-i.
Numbered(l) == [i \in DOMAIN l |-> [l[i] EXCEPT !.id = <<"seg", i>>]]

LoadLists ==
    {Numbered(l) : l \in InferLists}
        \cup {p \in ParsedLists : Len(p) <= MaxLen} \cup {OpenEndedList, ExampleList}

\* The selections committed, in 1/CanvasWidth ms: two that start within the
\* same millisecond, and one after the last segment of the lists.
MergeSelections == { <<2, 5>>, <<3, 5>>, <<6, 8>> }

SegmentsInit ==
    /\ view \in Parsers \cup {"PlayerComponent"}
    /\ mounted = TRUE /\ cleanedUp = FALSE
    /\ audioEl = TRUE /\ currentTime = 0
    /\ lyrics = <<>> /\ index = -1 /\ currentIndexRef = -1 /\ mountedRef = TRUE
    /\ segments = <<>>
    /\ currentIdx = -1 /\ autoScroll = TRUE /\ offsetMs = 0
    /\ timing = SetSegments(TimingCoreNew, segments)
    /\ LET R == IF view = "PlayerComponent"
                THEN RafEffect([ref |-> 0, frames |-> <<>>, batch |-> <<>>], -1, TRUE)
                ELSE [ref |-> 0, frames |-> <<>>, batch |-> <<>>]
       IN  rafRef = R.ref /\ frames = R.frames /\ batch = R.batch
    /\ scrollTop = 0
    /\ pending = {} /\ audioFile = NoFile
    /\ cache = [f \in AudioFiles |-> <<>>]
    /\ last = Did("other")
    /\ SearchIdle /\ DriftIdle /\ WaveIdle /\ ListIdle /\ BlobIdle
    /\ RowIdle
    /\ lrcText \in (IF view \in Parsers THEN ParseTexts ELSE {<<>>})

\* parseLRC applied to the text.
ApplyParse ==
    /\ view \in Parsers /\ last # "parsed"
    /\ lyrics' = ParseBy(view, lrcText)
    /\ last' = Did("parsed")
    /\ UNCHANGED <<view, mounted, cleanedUp, mediaVars, index, currentIndexRef,
                   mountedRef, timingVars, rafVars, ioVars, searchVars,
                   sideVars>>

\* PlayerComponent.onWaveSelection(startMs, endMs)
MergeSelection ==
    /\ view = "PlayerComponent" /\ mounted
    /\ Len(emitted) < MaxMerges
    /\ \E sel \in MergeSelections :
          /\ emitted' = Append(emitted, sel)
          /\ ReplaceSegments(MergeSegment(segments, ManualSegment(sel)),
                             IndexAfterReplace(currentIdx))
    /\ last' = Did("merged")
    /\ UNCHANGED <<view, mounted, cleanedUp, mediaVars, lrcVars, autoScroll,
                   offsetMs, scrollTop, ioVars, searchVars, driftVars,
                   audioBuf, duration, decodes, dragging, selRef, pointerX,
                   listVars, parseVars,
                   blobVars, rowVars>>

\* PlayerComponent.onLrcFileInput up to `await f.text()`: the file chosen
\* is one parseAnyToSegments will turn into the list `parsed`.  No audio
\* file is loaded, so nothing is cached.
ChooseLrcFile ==
    /\ view = "PlayerComponent" /\ mounted
    /\ pending = {} /\ last = "other"
    /\ \E l \in LoadLists :
          pending' = {[kind |-> "lrcRead", file |-> NoFile, parsed |-> l]}
    /\ last' = Did("chosen")
    /\ UNCHANGED <<view, mounted, cleanedUp, mediaVars, lrcVars, timingVars,
                   rafVars, audioFile, cache, searchVars, sideVars>>

\* The rest of onLrcFileInput: the inference loop, setSegments(segs) and
\* timing.setSegments(segs).
LoadParsed ==
    /\ view = "PlayerComponent" /\ mounted
    /\ \E op \in pending :
          /\ op.kind = "lrcRead"
          /\ ReplaceSegments(InferEnds(op.parsed), IndexAfterReplace(currentIdx))
          /\ pending' = pending \ {op}
    /\ last' = Did("loaded")
    /\ UNCHANGED <<view, mounted, cleanedUp, mediaVars, lrcVars, autoScroll,
                   offsetMs, scrollTop, audioFile, cache, searchVars,
                   sideVars>>

SegmentsNext == ApplyParse \/ ChooseLrcFile \/ LoadParsed \/ MergeSelection

SpecSegments == SegmentsInit /\ [][SegmentsNext]_vars

SortedByStart(list) ==
    \A i \in 1..Len(list) - 1 : list[i].start_ms <= list[i + 1].start_ms

UniqueIds(list) ==
    \A i, j \in DOMAIN list : i # j => list[i].id # list[j].id

(* C13: after any sequence of merges of committed selections into a sorted *)
(* list, the list is sorted by start_ms ascending and no two of its         *)
(* segments have the same id.                                               *)
MergedListSortedWithUniqueIds ==
    view = "PlayerComponent" => SortedByStart(segments) /\ UniqueIds(segments)

\* The sorted half of the above, which the merges do keep.
MergedListSorted ==
    view = "PlayerComponent" => SortedByStart(segments)

\* The place of the segment a merge inserted: after the segments that
\* start no later.
InsertedAt(list, seg) ==
    Cardinality({i \in DOMAIN list : list[i].start_ms <= seg.start_ms}) + 1

\* The places next to place p in a list of n segments, the last excepted.
NonLastNeighbours(p, n) == {p - 1, p + 1} \cap (1..n - 1)

(* C14: after a merge, every segment next to the inserted one that is not   *)
(* the last of the list and whose end_ms was absent or <= its start_ms has  *)
(* end_ms = start_ms of its new successor - 1.                              *)
MergeInfersNeighbourEnds ==
    [][last' = "merged" =>
          LET seg == ManualSegment(emitted'[Len(emitted')])
              p   == InsertedAt(segments, seg)
              old == [i \in 1..Len(segments') |->
                         IF i < p THEN segments[i] ELSE
                         IF i = p THEN seg ELSE segments[i - 1]]
          IN  \A q \in NonLastNeighbours(p, Len(segments')) :
                 NeedsEnd(old[q]) =>
                    segments'[q].end_ms = segments'[q + 1].start_ms - 1]_vars

\* The entries that equal e in a parsed list, and the stamps of a text that
\* should yield e.
CountIn(list, e) == Cardinality({i \in DOMAIN list : list[i] = e})

StampCount(text, e) ==
    Cardinality({ij \in (DOMAIN text) \X (1..2) :
                    /\ ij[2] <= Len(text[ij[1]].stamps)
                    /\ text[ij[1]].stamps[ij[2]] = e.time
                    /\ text[ij[1]].text = e.text})

(* C19: parsing yields exactly one segment for every well-formed stamp of   *)
(* the text, with the text of the stamp's line (k stamps on a line give k   *)
(* segments of the same text); a line without a stamp yields none.          *)
OneSegmentPerTimestamp ==
    last = "parsed" =>
        \A e \in [time : 0..1, text : LineTexts] :
            CountIn(lyrics, e) = StampCount(lrcText, e)

\* The same for the lines that have a text.
OneSegmentPerTimestampOfTextLines ==
    last = "parsed" =>
        \A e \in [time : 0..1, text : LineTexts \ {<<>>}] :
            CountIn(lyrics, e) = StampCount(lrcText, e)

\* The entries a parser pushes, in the order of the lines and of the stamps
\* on a line (AppleMusicLyricsPlayer pushes none for a line without text).
PushedEntries(parser, text) ==
    LET all == Flatten([i \in 1..Len(text) |-> LineEntries(text[i])])
    IN  IF parser = "AMLP" THEN SelectSeq(all, LAMBDA e : e.text # <<>>) ELSE all

TimesOf(list) == {list[i].time : i \in DOMAIN list}
StartsOf(list) == {list[i].start_ms : i \in DOMAIN list}

(* C20: a list a parser or a merge produced is sorted by start time         *)
(* ascending, and the segments of one start time are in the order in which  *)
(* they were inserted.                                                      *)
ListsSortedStably ==
    /\ [](last = "parsed" =>
            LET in == PushedEntries(view, lrcText)
            IN  /\ \A i \in 1..Len(lyrics) - 1 : lyrics[i].time <= lyrics[i + 1].time
                /\ \A t \in TimesOf(in) \cup TimesOf(lyrics) :
                      SelectSeq(lyrics, LAMBDA e : e.time = t) =
                      SelectSeq(in, LAMBDA e : e.time = t))
    /\ [][last' = "merged" =>
            LET in == Append(segments, ManualSegment(emitted'[Len(emitted')]))
            IN  /\ SortedByStart(segments')
                /\ \A t \in StartsOf(in) \cup StartsOf(segments') :
                      SelectSeq(segments', LAMBDA e : e.start_ms = t) =
                      SelectSeq(in, LAMBDA e : e.start_ms = t)]_vars

\* A selection was merged between a segment of the same start time and a
\* later one: it is after the first and before the second.
MergedAfterEqualStart ==
    /\ last = "merged"
    /\ \E i \in 2..Len(segments) - 1 :
          /\ segments[i].id[1] = "manual"
          /\ segments[i - 1].id[1] = "seg"
          /\ segments[i - 1].start_ms = segments[i].start_ms
          /\ segments[i + 1].start_ms > segments[i].start_ms

-----------------------------------------------------------------------------
(* VirtualList on its own, with props and scroll offsets of a bounded set:  *)
(* the window of a render, scrollToIndex through the handle created on the  *)
(* first render, and the frames of the animation it starts.                 *)

ItemCounts == {0, 14, 1000}
ItemHeights == {1, 56}
ListHeights == {1, 560}
Overscans == {0, 5}
ScrollOffsets == {0, 55, 560}
ScrollIndices == {0, 7, 999}
Aligns == {"center", "start"}

\* The window of the render of the props and state pr.
Rendered(pr) ==
    VisibleRange(pr.scrollTop, pr.itemHeight, pr.height, pr.overscan, pr.count)

\* A slice that is one item late and ignores the end of the list.
RowsShifted(n, b, e) == [i \in 1..Max(0, e - b) |-> b + i]

\* `items.slice(b, e)` of a list of n items, as the positions of the items
\* it returns: a negative bound counts from the end, a bound past the end is
\* the end.
SliceOf(n, b, e) ==
    LET from == IF b < 0 THEN Max(n + b, 0) ELSE Min(b, n)
        to   == IF e < 0 THEN Max(n + e, 0) ELSE Min(e, n)
    IN  [i \in 1..Max(0, to - from) |-> from + i - 1]

\* What the render puts into the DOM: a row for every item of `visible`
\* under the index startIndex + i, the offset of the rows and the height of
\* the inner container.
RenderOf(pr) ==
    LET range == Rendered(pr)
        items == SliceOf(pr.count, range[1], range[2] + 1)
    IN  [rows |-> [i \in DOMAIN items |->
                      [index |-> range[1] + i - 1, item |-> items[i]]],
         topPad |-> range[1] * pr.itemHeight,
         innerHeight |-> pr.count * pr.itemHeight]

\* The list is mounted: the first render creates the handle.
ListInit ==
    /\ view = "VirtualList"
    /\ mounted = TRUE /\ cleanedUp = FALSE
    /\ audioEl = TRUE /\ currentTime = 0
    /\ lyrics = <<>> /\ index = -1 /\ currentIndexRef = -1 /\ mountedRef = TRUE
    /\ segments = <<>> /\ currentIdx = -1 /\ autoScroll = TRUE /\ offsetMs = 0
    /\ timing = TimingCoreNew
    /\ rafRef = 0 /\ frames = <<>> /\ batch = <<>> /\ scrollTop = 0
    /\ pending = {} /\ audioFile = NoFile
    /\ cache = [f \in AudioFiles |-> <<>>]
    /\ last = Did("other")
    /\ SearchIdle /\ DriftIdle /\ WaveIdle /\ ParseIdle /\ BlobIdle
    /\ RowIdle
    /\ listProps \in [count : ItemCounts, itemHeight : ItemHeights,
                      height : ListHeights, overscan : Overscans,
                      scrollTop : {0}]
    /\ handleCount = listProps.count
    /\ visible = Rendered(listProps)
    /\ rendered = RenderOf(listProps)
    /\ target = [i |-> 0, align |-> "start", halfPx |-> 0]

\* The user scrolls the container to another offset.
ListUserScroll ==
    /\ batch = <<>>
    /\ \E off \in ScrollOffsets \ {scrollTop} : scrollTop' = off
    /\ last' = Did("other")
    /\ UNCHANGED <<view, mounted, cleanedUp, mediaVars, lrcVars, timingVars,
                   rafRef, frames, batch, ioVars, asideVars>>

\* onScroll: `setScrollTop(outer.scrollTop)` and the render that follows.
ListScrollEvent ==
    /\ batch = <<>> /\ listProps.scrollTop # scrollTop
    /\ listProps' = [listProps EXCEPT !.scrollTop = scrollTop]
    /\ visible' = Rendered(listProps')
    /\ rendered' = RenderOf(listProps')
    /\ last' = Did("rendered")
    /\ UNCHANGED <<view, mounted, cleanedUp, mediaVars, lrcVars, timingVars,
                   rafVars, ioVars, searchVars, driftVars, waveVars,
                   handleCount, target, parseVars,
                   blobVars, rowVars>>

\* The parent renders the list with other items.
ListItemsReplaced ==
    /\ batch = <<>>
    /\ \E n \in ItemCounts \ {listProps.count} :
          listProps' = [listProps EXCEPT !.count = n]
    /\ visible' = Rendered(listProps')
    /\ rendered' = RenderOf(listProps')
    /\ last' = Did("rendered")
    /\ UNCHANGED <<view, mounted, cleanedUp, mediaVars, lrcVars, timingVars,
                   rafVars, ioVars, searchVars, driftVars, waveVars,
                   handleCount, target, parseVars,
                   blobVars, rowVars>>

\* handle.scrollToIndex(i, align); one animation at a time.
ListScrollToIndex ==
    /\ batch = <<>> /\ frames = <<>>
    /\ \E i \in ScrollIndices, align \in Aligns :
          /\ target' = [i |-> i, align |-> align,
                         halfPx |-> TargetHalfPx(handleCount,
                                        listProps.itemHeight,
                                        listProps.height, i, align)]
          /\ SetRaf(RequestFrame(Raf, AnimCallback(scrollTop,
                                        target'.halfPx \div 2 - scrollTop)))
    /\ last' = Did("scrollTo")
    /\ UNCHANGED <<view, mounted, cleanedUp, mediaVars, lrcVars, timingVars,
                   scrollTop, ioVars, searchVars, driftVars, waveVars,
                   listProps, handleCount, visible, rendered, parseVars,
                   blobVars, rowVars>>

ListNext ==
    \/ ListUserScroll
    \/ ListScrollEvent
    \/ ListItemsReplaced
    \/ ListScrollToIndex
    \/ BeginFrame
    \/ AnimationStep

SpecList == ListInit /\ [][ListNext]_vars

(* C17: the window of every render is                                       *)
(*   start = max(0, floor(scrollOffset / itemHeight) - overscan),           *)
(*   end = min(itemCount - 1,                                               *)
(*             floor((scrollOffset + viewportHeight) / itemHeight)          *)
(*             + overscan);                                                 *)
(* with 1000 items of height 56, a viewport of 560, the offset 560 and the  *)
(* overscan 5 it starts at 5 and covers the indices 5 to 20.                *)
VisibleRangeFollowsFormula ==
    /\ visible[1] = Max(0, listProps.scrollTop \div listProps.itemHeight
                           - listProps.overscan)
    /\ visible[2] = Min(listProps.count - 1,
                        (listProps.scrollTop + listProps.height)
                            \div listProps.itemHeight + listProps.overscan)
    /\ listProps = [count |-> 1000, itemHeight |-> 56, height |-> 560,
                    overscan |-> 5, scrollTop |-> 560]
         => visible[1] = 5 /\ 5..20 \subseteq visible[1]..visible[2]

\* The list of the example, scrolled to 560: its window is 5 to 25.
ExampleWindowRendered ==
    /\ listProps = [count |-> 1000, itemHeight |-> 56, height |-> 560,
                    overscan |-> 5, scrollTop |-> 560]
    /\ last = "rendered"
    /\ visible = <<5, 25>>

\* The target of the last call as the formula gives it for a list of n
\* items, and the largest offset of such a list, in half pixels.
ClaimedMaxScroll(n) ==
    2 * Max(0, n * listProps.itemHeight - listProps.height)

ClaimedTarget(n) ==
    Clamp(2 * target.i * listProps.itemHeight -
              (IF target.align = "center"
               THEN listProps.height - listProps.itemHeight ELSE 0),
          0, ClaimedMaxScroll(n))

(* C18: the target of every scrollToIndex is in [0, maxScroll], maxScroll   *)
(* = max(0, itemCount * itemHeight - viewportHeight): centred, it is        *)
(* clamp(index * itemHeight - viewportHeight / 2 + itemHeight / 2); at the  *)
(* start, clamp(index * itemHeight).                                        *)
ScrollTargetWithinList ==
    last = "scrollTo" =>
        /\ target.halfPx >= 0
        /\ target.halfPx <= ClaimedMaxScroll(listProps.count)
        /\ target.halfPx = ClaimedTarget(listProps.count)

\* The same with the item count the handle's closure holds.
ScrollTargetWithinCapturedList ==
    last = "scrollTo" =>
        /\ target.halfPx >= 0
        /\ target.halfPx <= ClaimedMaxScroll(handleCount)
        /\ target.halfPx = ClaimedTarget(handleCount)

\* The list the pending read of onLrcFileInput will parse.
ParsedOf(ops) == (CHOOSE op \in ops : op.kind = "lrcRead").parsed

StartSeq(list) == [i \in DOMAIN list |-> list[i].start_ms]
EndsOf(list) == [i \in DOMAIN list |-> list[i].end_ms]

(* C21: after the post-processing of onLrcFileInput every segment but the   *)
(* last whose end was absent or not after its start ends one millisecond    *)
(* before the next segment starts, a segment whose end was after its start  *)
(* keeps it, the last segment's end is left as parsed, and nothing else is  *)
(* changed; starts [0, 4000, 8500] without ends give [3999, 8499, open].    *)
InferenceFillsMissingEnds ==
    [][last' = "loaded" =>
         LET parsed == ParsedOf(pending)
             n == Len(parsed)
         IN  /\ Len(segments') = n
             /\ timing'.segments = segments'
             /\ \A i \in 1..n :
                   /\ segments'[i] = [parsed[i] EXCEPT !.end_ms = segments'[i].end_ms]
                   /\ i < n /\ (parsed[i].end_ms = NoEnd
                                  \/ parsed[i].end_ms <= parsed[i].start_ms)
                        => segments'[i].end_ms = parsed[i + 1].start_ms - 1
                   /\ i < n /\ parsed[i].end_ms # NoEnd
                            /\ parsed[i].end_ms > parsed[i].start_ms
                        => segments'[i].end_ms = parsed[i].end_ms
                   /\ i = n => segments'[i].end_ms = parsed[i].end_ms
             /\ StartSeq(parsed) = <<0, 4000, 8500>>
                   /\ EndsOf(parsed) = <<NoEnd, NoEnd, NoEnd>>
                  => EndsOf(segments') = <<3999, 8499, NoEnd>>]_vars

\* The example list has been loaded.
ExampleEndsInferred ==
    /\ view = "PlayerComponent" /\ last = "loaded"
    /\ StartSeq(segments) = <<0, 4000, 8500>>
    /\ EndsOf(segments) = <<3999, 8499, NoEnd>>
    /\ timing.segments = segments

\* Every segment of the list that has an end starts at 0 or later and ends
\* no earlier than it starts.  (An inferred end of 0 - 1 reads as absent.)
WellFormed(list) ==
    \A i \in DOMAIN list :
        list[i].end_ms # NoEnd =>
            list[i].start_ms >= 0 /\ list[i].end_ms >= list[i].start_ms

StrictlyAscending(list) ==
    \A i \in 1..Len(list) - 1 : list[i].start_ms < list[i + 1].start_ms

(* C22: every list published to the Timing Core is well formed: a load      *)
(* publishes a well-formed list when the parsed segments were, also when    *)
(* two of them share a start, and a merge keeps a list well formed.         *)
PublishedSegmentsWellFormed ==
    /\ [][last' = "loaded" /\ WellFormed(ParsedOf(pending)) =>
            WellFormed(timing'.segments)]_vars
    /\ [][last' = "merged" /\ WellFormed(timing.segments) =>
            WellFormed(timing'.segments)]_vars

\* The same for the loads of lists without equal starts, which holds.
PublishedWellFormedWithoutTies ==
    /\ [][last' = "loaded" /\ WellFormed(ParsedOf(pending))
            /\ StrictlyAscending(ParsedOf(pending)) =>
            WellFormed(timing'.segments)]_vars
    /\ [][last' = "merged" /\ WellFormed(timing.segments) =>
            WellFormed(timing'.segments)]_vars

-----------------------------------------------------------------------------
(* The parsers on raw text.  A raw line is a sequence of pieces: stamps the *)
(* pattern /\[(\d{1,2}):(\d{2}(?:\.\d{1,3})?)\]/g matches, a bracket it     *)
(* does not match (the seconds need two digits), a word and white space.    *)

\* The pieces the pattern matches, with mm * 60 + ss in milliseconds.
StampTimes == ("[00:00.000]" :> 0) @@ ("[00:00.001]" :> 1)

RawPieces == DOMAIN StampTimes \cup {"[0:1]", "a", " "}

\* A raw line has at most MaxPieces pieces.
MaxPieces == 3

RawLines == UNION {[1..n -> RawPieces] : n \in 0..MaxPieces}

\* A line with a stamp and a text.
GoodLine == <<"[00:00.001]", "b">>

\* The raw texts: none, one line, and that line before or after GoodLine.
RawTexts ==
    {<<>>} \cup {<<l>> : l \in RawLines}
           \cup {<<GoodLine, l>> : l \in RawLines}
           \cup {<<l, GoodLine>> : l \in RawLines}

\* `times`: the matches of `re.exec(raw)` in a loop, in the order of the line.
Matched(raw) == SelectSeq(raw, LAMBDA piece : piece \in DOMAIN StampTimes)

\* String.prototype.trim
RECURSIVE TrimStart(_)
TrimStart(t) ==
    IF t # <<>> /\ Head(t) = " " THEN TrimStart(Tail(t)) ELSE t

RECURSIVE TrimEnd(_)
TrimEnd(t) ==
    IF t # <<>> /\ t[Len(t)] = " " THEN TrimEnd(SubSeq(t, 1, Len(t) - 1)) ELSE t

Trim(t) == TrimEnd(TrimStart(t))

\* One line as parseLRC reads it: the times of the matches and
\* `raw.replace(re, "").trim()`.
LexLine(raw) ==
    LET matches == Matched(raw)
    IN  LrcLine([i \in DOMAIN matches |-> StampTimes[matches[i]]],
                Trim(SelectSeq(raw, LAMBDA piece : piece \notin DOMAIN StampTimes)))

\* `String(text).split(/\r?\n/)`, line by line.
LexText(text) == [i \in DOMAIN text |-> LexLine(text[i])]

ParseInit ==
    /\ view \in Parsers
    /\ mounted = TRUE /\ cleanedUp = FALSE
    /\ audioEl = TRUE /\ currentTime = 0
    /\ lyrics = <<>> /\ index = -1 /\ currentIndexRef = -1 /\ mountedRef = TRUE
    /\ segments = <<>>
    /\ currentIdx = -1 /\ autoScroll = TRUE /\ offsetMs = 0
    /\ timing = SetSegments(TimingCoreNew, segments)
    /\ rafRef = 0 /\ frames = <<>> /\ batch = <<>> /\ scrollTop = 0
    /\ pending = {} /\ audioFile = NoFile
    /\ cache = [f \in AudioFiles |-> <<>>]
    /\ last = Did("other")
    /\ SearchIdle /\ DriftIdle /\ WaveIdle /\ ListIdle /\ BlobIdle
    /\ RowIdle
    /\ lrcText \in RawTexts

\* parseLRC applied to the raw text.
ParseRaw ==
    /\ last # "parsed"
    /\ lyrics' = ParseBy(view, LexText(lrcText))
    /\ last' = Did("parsed")
    /\ UNCHANGED <<view, mounted, cleanedUp, mediaVars, index, currentIndexRef,
                   mountedRef, timingVars, rafVars, ioVars, searchVars,
                   sideVars>>

SpecParse == ParseInit /\ [][ParseRaw]_vars

\* A piece the LRC format accepts as a time stamp, and its time.
IsStamp(piece) == piece \in {"[00:00.000]", "[00:00.001]"}
TimeOf(piece) == IF piece = "[00:00.000]" THEN 0 ELSE 1

\* What is left of a line without its stamps and its outer white space.
TextOf(raw) == Trim(SelectSeq(raw, LAMBDA piece : ~IsStamp(piece)))

\* The entries due to a raw text: one for every stamp of every line.
DueEntries(text) ==
    {[time |-> TimeOf(text[ij[1]][ij[2]]), text |-> TextOf(text[ij[1]])] :
        ij \in {ij \in (DOMAIN text) \X (1..MaxPieces) :
                   /\ ij[2] <= Len(text[ij[1]])
                   /\ IsStamp(text[ij[1]][ij[2]])}}

Entries(list) == {list[k] : k \in DOMAIN list}

(* C23: for every text, the empty one and those with malformed or missing   *)
(* stamps included, the parser returns a list; the list holds the lines     *)
(* with a well-formed stamp, each with its text, and nothing else.          *)
ParsingDropsOnlyOffendingLines ==
    last = "parsed" =>
        /\ DOMAIN lyrics = 1..Len(lyrics)
        /\ Entries(lyrics) = DueEntries(lrcText)

\* The same with the stamped lines without a text left out, which holds for
\* the three parsers.
ParsingKeepsLinesWithText ==
    last = "parsed" =>
        /\ DOMAIN lyrics = 1..Len(lyrics)
        /\ Entries(lyrics) \subseteq DueEntries(lrcText)
        /\ \A e \in DueEntries(lrcText) : e.text # <<>> => e \in Entries(lyrics)

\* A text with a malformed stamp on one line and a well-formed line was
\* parsed to the well-formed line alone.
MalformedLineDropped ==
    /\ last = "parsed"
    /\ lrcText = << <<"[0:1]", "a">>, GoodLine >>
    /\ lyrics = << [time |-> 1, text |-> <<"b">>] >>

-----------------------------------------------------------------------------
(* The audio and lyrics files of a session: the blob URLs made for the      *)
(* audio files, and PlayerComponent's traffic with the segment cache.  The  *)
(* cache store answers a read with the list stored under the key or with    *)
(* none, and either call may fail.                                          *)

FileViews == {"AMLP", "PlayerComponent"}
CacheFiles == {"a.mp3", "b.mp3"}

\* At most MaxLoads audio files are loaded in one run.
MaxLoads == 2

\* The lists the lyrics files parse to.
FileLists == {p \in ParsedLists : Len(p) <= MaxLen} \cup {OpenEndedList}

NoEntry == [present |-> FALSE, list |-> <<>>]
Entry(list) == [present |-> TRUE, list |-> list]

\* An await that rejects outside a try block ends the handler in an error.
Rethrow(outcome) == last' = Did("rejected")

\* `try { await ... } catch {}`: the handler goes on after a failure.
Swallow(outcome) == last' = Did(outcome)

FilesInit ==
    /\ view \in FileViews
    /\ mounted = TRUE /\ cleanedUp = FALSE
    /\ audioEl = TRUE /\ currentTime = 0
    /\ lyrics = <<>> /\ index = -1 /\ currentIndexRef = -1 /\ mountedRef = TRUE
    /\ segments = <<>>
    /\ currentIdx = -1 /\ autoScroll = TRUE /\ offsetMs = 0
    /\ timing = SetSegments(TimingCoreNew, segments)
    /\ LET R == IF view = "PlayerComponent"
                THEN RafEffect([ref |-> 0, frames |-> <<>>, batch |-> <<>>], -1, TRUE)
                ELSE [ref |-> 0, frames |-> <<>>, batch |-> <<>>]
       IN  rafRef = R.ref /\ frames = R.frames /\ batch = R.batch
    /\ scrollTop = 0
    /\ pending = {} /\ audioFile = NoFile
    /\ cache \in {[f \in CacheFiles |-> NoEntry],
                  [f \in CacheFiles |->
                      IF f = "a.mp3" THEN Entry(InferEnds(OpenEndedList)) ELSE NoEntry],
                  [f \in CacheFiles |->
                      IF f = "a.mp3" THEN Entry(InferEnds(OpenEndedList))
                      ELSE Entry(<<Segment(<<"seg", 1>>, 1, 2)>>)]}
    /\ last = Did("other")
    /\ SearchIdle /\ DriftIdle /\ WaveIdle /\ ListIdle /\ ParseIdle /\ BlobIdle
    /\ RowIdle

\* AppleMusicLyricsPlayer.onAudioFile: the new URL becomes the active one,
\* then the previous one is revoked; when createObjectURL throws, an error
\* is shown and nothing else happens.  (The frame it requests calls
\* audio.load(), which touches nothing modelled.)
FilesOnAudioFile ==
    /\ view = "AMLP" /\ mounted /\ blobs < MaxLoads
    /\ \/ LET url  == blobs + 1
              prev == activeBlob
          IN  /\ blobs' = url
              /\ activeBlob' = url
              /\ audioSrc' = url
              /\ revoked' = IF prev # 0 /\ prev # url
                            THEN Append(revoked, prev) ELSE revoked
              /\ last' = Did("audio-loaded")
       \/ /\ UNCHANGED blobVars
          /\ last' = Did("url-failed")
    /\ UNCHANGED <<view, mounted, cleanedUp, mediaVars, lrcVars, timingVars,
                   rafVars, ioVars, searchVars, driftVars, waveVars, listVars,
                   parseVars, rowVars>>

\* PlayerComponent.onAudioFileInput up to `await loadSegmentsFromCache`:
\* setAudioFile(f), a URL for the file as the src of the audio element.
FilesOnAudioFileInput ==
    /\ view = "PlayerComponent" /\ mounted /\ blobs < MaxLoads
    /\ \E f \in CacheFiles :
          /\ audioFile' = f
          /\ pending' = pending \cup {[kind |-> "cacheRead", file |-> f, list |-> <<>>]}
    /\ blobs' = blobs + 1
    /\ audioSrc' = IF audioEl THEN blobs + 1 ELSE audioSrc
    /\ last' = Did("audio-loaded")
    /\ UNCHANGED <<view, mounted, cleanedUp, mediaVars, lrcVars, timingVars,
                   rafVars, cache, searchVars, driftVars, waveVars, listVars,
                   parseVars, revoked, activeBlob, rowVars>>

\* loadSegmentsFromCache answers: the rest of onAudioFileInput.
FilesCacheAnswer ==
    /\ \E op \in {o \in pending : o.kind = "cacheRead"} :
          /\ pending' = pending \ {op}
          /\ \/ /\ cache[op.file].present
                /\ ContinuationReplaces(cache[op.file].list)
                /\ last' = Did("cache-hit")
             \/ /\ ~cache[op.file].present
                /\ UNCHANGED <<segments, currentIdx, timing, rafRef, frames, batch>>
                /\ last' = Did("cache-miss")
             \/ /\ UNCHANGED <<segments, currentIdx, timing, rafRef, frames, batch>>
                /\ Swallow("cache-read-failed")
    /\ UNCHANGED <<view, mounted, cleanedUp, mediaVars, lrcVars, autoScroll,
                   offsetMs, scrollTop, audioFile, cache, asideVars>>

\* PlayerComponent.onLrcFileInput up to `await f.text()`; the continuation
\* closes over the audioFile of this render.
FilesOnLrcFileInput ==
    /\ view = "PlayerComponent" /\ mounted
    /\ \A o \in pending : o.kind = "cacheRead"
    /\ \E l \in FileLists :
          pending' = pending \cup {[kind |-> "lrcRead", file |-> audioFile, list |-> l]}
    /\ last' = Did("chosen")
    /\ UNCHANGED <<view, mounted, cleanedUp, mediaVars, lrcVars, timingVars,
                   rafVars, audioFile, cache, asideVars>>

\* The text is read: parse, infer the ends, set the segments and call
\* cacheSegments when an audio file was loaded.  `await f.text()` is outside
\* every try: when the read fails the handler ends there.
FilesLrcTextRead ==
    /\ \E op \in {o \in pending : o.kind = "lrcRead"} :
          \/ LET segs == InferEnds(op.list)
             IN  /\ ContinuationReplaces(segs)
                 /\ pending' = (pending \ {op}) \cup
                        (IF op.file = NoFile THEN {}
                         ELSE {[kind |-> "cacheWrite", file |-> op.file, list |-> segs]})
                 /\ last' = Did("lrc-loaded")
          \/ /\ pending' = pending \ {op}
             /\ UNCHANGED <<segments, currentIdx, timing, rafRef, frames, batch>>
             /\ Rethrow("text-read-failed")
    /\ UNCHANGED <<view, mounted, cleanedUp, mediaVars, lrcVars, autoScroll,
                   offsetMs, scrollTop, audioFile, cache, asideVars>>

\* cacheSegments answers: the end of onLrcFileInput.
FilesCacheWritten ==
    /\ \E op \in {o \in pending : o.kind = "cacheWrite"} :
          /\ pending' = pending \ {op}
          /\ \/ /\ cache' = [cache EXCEPT ![op.file] = Entry(op.list)]
                /\ last' = Did("cached")
             \/ /\ cache' = cache
                /\ Swallow("cache-write-failed")
    /\ UNCHANGED <<view, mounted, cleanedUp, mediaVars, lrcVars, timingVars,
                   rafVars, audioFile, asideVars>>

\* The view is unmounted and its effect cleanups run.
\*   AMLP: mountedRef.current = false; the frame in rafRef is cancelled; the
\*         active URL is revoked and forgotten; the src is removed.
\*   PlayerComponent: the frame in rafRef is cancelled.
FilesUnmount ==
    /\ mounted
    /\ mounted' = FALSE /\ audioEl' = FALSE /\ cleanedUp' = TRUE
    /\ SetRaf(CancelRef(Raf))
    /\ mountedRef' = IF view = "AMLP" THEN FALSE ELSE mountedRef
    /\ IF view = "AMLP"
       THEN /\ revoked' = IF activeBlob # 0 THEN Append(revoked, activeBlob)
                          ELSE revoked
            /\ activeBlob' = 0
            /\ audioSrc' = 0
       ELSE UNCHANGED <<revoked, activeBlob, audioSrc>>
    /\ last' = Did("unmounted")
    /\ UNCHANGED <<view, currentTime, lyrics, index, currentIndexRef,
                   timingVars, scrollTop, ioVars, searchVars, driftVars,
                   waveVars, listVars, parseVars, blobs, rowVars>>

FilesNext ==
    \/ FilesOnAudioFile \/ FilesOnAudioFileInput \/ FilesCacheAnswer
    \/ FilesOnLrcFileInput \/ FilesLrcTextRead \/ FilesCacheWritten
    \/ FilesUnmount

SpecFiles == FilesInit /\ [][FilesNext]_vars

\* The operations that have just ended.
Ended == pending \ pending'

(* C24: a cache read that fails or finds nothing leaves the segment list    *)
(* and the Timing Core as they are; a cache write that fails leaves the     *)
(* freshly loaded segments in the list and in the Timing Core; and no       *)
(* handler ends in an error because of the cache.                           *)
CacheFailuresSwallowed ==
    /\ [][last' \in {"cache-miss", "cache-read-failed", "cache-write-failed"} =>
            /\ segments' = segments /\ timing' = timing
            /\ cache' = cache]_vars
    /\ [][last' = "lrc-loaded" =>
            \E op \in Ended :
               /\ timing'.segments = InferEnds(op.list)
               /\ mounted => segments' = InferEnds(op.list)]_vars
    /\ [][last' = "rejected" => \A op \in Ended : op.kind = "lrcRead"]_vars

\* A write to the cache has just failed with the loaded lyrics in place.
CacheWriteFailedLyricsLoaded ==
    /\ last = "cache-write-failed"
    /\ segments # <<>> /\ timing.segments = segments
    /\ ~cache[audioFile].present

\* How often a URL was revoked, and the URLs not revoked yet.
Revocations(u) == Cardinality({i \in DOMAIN revoked : revoked[i] = u})
Unrevoked == {u \in 1..blobs : Revocations(u) = 0}

BlobUrlsKept ==
    /\ \A u \in 1..blobs : Revocations(u) <= 1
    /\ audioSrc # 0 => audioSrc \in Unrevoked
    /\ Cardinality(Unrevoked) <= 1
    /\ ~mounted => Unrevoked = {}

(* C25: every blob URL made for an audio file is revoked when a later file  *)
(* replaces it or when the view unmounts, and at most once; the active URL  *)
(* is never a revoked one; at most one unrevoked URL exists after any       *)
(* sequence of loads, and none after the unmount.                           *)
BlobUrlsRevokedOnce ==
    /\ BlobUrlsKept
    /\ blobs > 1 => \A u \in 1..blobs - 1 : Revocations(u) = 1

\* The same for AppleMusicLyricsPlayer alone, which holds.
AmlpBlobUrlsRevokedOnce ==
    view = "AMLP" =>
        /\ BlobUrlsKept
        /\ blobs > 1 => \A u \in 1..blobs - 1 : Revocations(u) = 1
        /\ activeBlob = audioSrc

\* AppleMusicLyricsPlayer has replaced one file by another and was then
\* unmounted: both URLs are revoked.
AmlpAllRevoked ==
    /\ view = "AMLP" /\ ~mounted /\ blobs = MaxLoads
    /\ revoked = [u \in 1..blobs |-> u]

-----------------------------------------------------------------------------
\* floor(log2(n)) for n >= 1
RECURSIVE Log2(_)
Log2(n) == IF n <= 1 THEN 0 ELSE 1 + Log2(n \div 2)

\* The most iterations the search may take on a list of n entries.
MaxIterations(n) == IF n = 0 THEN 0 ELSE Log2(n) + 1

(* C26: the binary search ends for every list and every t; every iteration  *)
(* reads one index not read before, within 0..n-1, and there are at most    *)
(* floor(log2(n)) + 1 of them, none for the empty list.                     *)
SearchEndsWithinLogIterations ==
    /\ <>(pc = "done")
    /\ [](reads \subseteq 0..Len(lyrics) - 1)
    /\ [](Cardinality(reads) <= MaxIterations(Len(lyrics)))
    /\ [][low' # low \/ high' # high =>
            /\ Mid(low, high) \notin reads
            /\ reads' = reads \cup {Mid(low, high)}]_vars

\* The search of the long list has ended after the most iterations allowed.
LongSearchTookAllIterations ==
    /\ pc = "done" /\ lyrics = LongLyrics
    /\ Cardinality(reads) = MaxIterations(LongLen)
    /\ LongLen - 1 \in reads

-----------------------------------------------------------------------------
(* C27: scrollToIndex works with the item count of the latest render: after *)
(* the items were replaced by a list of another length, the target is       *)
(* clamped to the maxScroll of the new length.                              *)
ScrollToIndexUsesCurrentCount ==
    [][last' = "scrollTo" =>
         target'.halfPx = TargetHalfPx(listProps.count, listProps.itemHeight,
                                       listProps.height, target'.i,
                                       target'.align)]_vars

\* As long as the items have the length they had at the mount, it does.
ScrollToIndexUsesMountCount ==
    [][last' = "scrollTo" /\ listProps.count = handleCount =>
         target'.halfPx = TargetHalfPx(listProps.count, listProps.itemHeight,
                                       listProps.height, target'.i,
                                       target'.align)]_vars

-----------------------------------------------------------------------------
LoopCount(fs) == Cardinality({i \in DOMAIN fs : fs[i].kind = "loop"})

\* The views whose loop runs now: a mounted timing player, a mounted LRC
\* player with lyrics.
LoopDue == mounted /\ (view \in TimingViews \/ lyrics # <<>>)

(* C28: between frames, while the view is mounted (and, in the LRC players, *)
(* holds lyrics), exactly one callback of the tick loop is pending and it   *)
(* is one that runs its body: an effect re-run leaves neither two loops nor *)
(* none.                                                                    *)
ExactlyOneLoopPending ==
    batch = <<>> /\ LoopDue =>
        /\ LoopCount(frames) = 1
        /\ Cardinality(LiveLoops) = 1

\* The effect has re-run for a new active index with a scroll animation
\* under way: the loop still has its one callback.
LoopPendingAfterRerun ==
    /\ batch = <<>> /\ LoopDue /\ last = "tick-changed"
    /\ AnimCount(frames) > 0
    /\ LoopCount(frames) = 1

-----------------------------------------------------------------------------
(* A scroll animation frame by frame: PlayerComponent's list (rows of 56 px *)
(* in a container of 640 px), frames a quarter, a half or the whole of dur  *)
(* apart, the user scrolling in between.                                    *)

AnimFrameTimes == {dur \div 4, dur \div 2, dur}

AnimInit ==
    /\ view = "VirtualList"
    /\ mounted = TRUE /\ cleanedUp = FALSE
    /\ audioEl = TRUE /\ currentTime = 0
    /\ lyrics = <<>> /\ index = -1 /\ currentIndexRef = -1 /\ mountedRef = TRUE
    /\ segments = <<>> /\ currentIdx = -1 /\ autoScroll = TRUE /\ offsetMs = 0
    /\ timing = TimingCoreNew
    /\ rafRef = 0 /\ frames = <<>> /\ batch = <<>> /\ scrollTop = 0
    /\ pending = {} /\ audioFile = NoFile
    /\ cache = [f \in AudioFiles |-> <<>>]
    /\ last = Did("other")
    /\ SearchIdle /\ DriftIdle /\ WaveIdle /\ ParseIdle /\ BlobIdle
    /\ RowIdle
    /\ listProps \in [count : ItemCounts, itemHeight : {itemHeight},
                      height : {height}, overscan : {5}, scrollTop : {0}]
    /\ handleCount = listProps.count
    /\ visible = Rendered(listProps)
    /\ rendered = RenderOf(listProps)
    /\ target = [i |-> 0, align |-> "start", halfPx |-> 0]

\* The browser starts a frame, `elapsed` ms after the last one (or after
\* the call of scrollToIndex).
AnimBeginFrame ==
    /\ batch = <<>> /\ frames # <<>>
    /\ \E elapsed \in AnimFrameTimes :
          batch' = [i \in DOMAIN frames |->
                      [frames[i] EXCEPT !.age = Min(@ + elapsed, dur)]]
    /\ frames' = <<>>
    /\ UNCHANGED <<view, mounted, cleanedUp, mediaVars, lrcVars, timingVars,
                   rafRef, scrollTop, ioVars, last, asideVars>>

AnimNext ==
    \/ ListUserScroll
    \/ ListScrollToIndex
    \/ AnimBeginFrame
    \/ AnimationStep

\* The browser keeps producing frames and calls every callback of a frame.
SpecAnim ==
    AnimInit /\ [][AnimNext]_vars
        /\ WF_vars(AnimBeginFrame) /\ WF_vars(AnimationStep)

AnimPending == AnimCount(frames) + AnimCount(batch) > 0

Between(x, a, b) == Min(a, b) <= x /\ x <= Max(a, b)

(* C29: a scroll animation ends: a frame requests the next one exactly when *)
(* less than 340 ms have elapsed, the frame at 340 ms or later writes the   *)
(* clamped target, and every offset written lies between the offset at the  *)
(* start and the target.                                                    *)
ScrollAnimationEnds ==
    /\ AnimPending ~> ~AnimPending
    /\ [][batch # <<>> /\ Head(batch).kind = "anim" =>
            LET cb == Head(batch)
            IN  /\ cb.age < dur <=> AnimCount(frames') = AnimCount(frames) + 1
                /\ cb.age >= dur =>
                      /\ AnimCount(frames') = AnimCount(frames)
                      /\ 2 * scrollTop' = target.halfPx
                /\ Between(scrollTop', cb.start, cb.start + cb.delta)
                /\ 2 * (cb.start + cb.delta) = target.halfPx]_vars

\* Three quarters into an upward animation: the offset is strictly between
\* the start and the target and the next frame is requested.
ScrollingUpMidway ==
    /\ batch = <<>> /\ Len(frames) = 1
    /\ frames[1].kind = "anim" /\ frames[1].age = 3 * (dur \div 4)
    /\ frames[1].delta < 0
    /\ scrollTop < frames[1].start
    /\ scrollTop > frames[1].start + frames[1].delta

-----------------------------------------------------------------------------
(* C30: the rows in the DOM are exactly the items with an index in          *)
(* start..end (none when start > end or the list is empty), each rendered   *)
(* under its own index; the rows are placed at start * itemHeight inside a  *)
(* container of the height itemCount * itemHeight.                          *)
RowsAreTheWindow ==
    LET start == Max(0, listProps.scrollTop \div listProps.itemHeight
                        - listProps.overscan)
        end   == Min(listProps.count - 1,
                     (listProps.scrollTop + listProps.height)
                         \div listProps.itemHeight + listProps.overscan)
        rows  == rendered.rows
    IN  /\ {rows[i].item : i \in DOMAIN rows} = start..end
        /\ Len(rows) = Cardinality(start..end)
        /\ \A i \in DOMAIN rows :
              rows[i].index = rows[i].item /\ rows[i].index = start + i - 1
        /\ rendered.topPad = start * listProps.itemHeight
        /\ rendered.innerHeight = listProps.count * listProps.itemHeight

\* The list was scrolled to 560 and then replaced by a shorter one whose
\* items all end above the window: no row is rendered.
WindowPastTheEnd ==
    /\ last = "rendered" /\ listProps.count = 14 /\ listProps.scrollTop = 560
    /\ listProps.itemHeight = 1 /\ listProps.overscan = 5
    /\ visible[1] > visible[2]
    /\ rendered.rows = <<>> /\ rendered.innerHeight = 14

-----------------------------------------------------------------------------
(* The react-window Player's rows with word-level timing (Player.tsx,       *)
(* 114-137).  Row is evaluated when Player renders; a render follows a      *)
(* state update that changes a state value, so `highlighted` keeps the      *)
(* words the latest render lit until the next render.  In this              *)
(* specification `last` is a record: the step taken and the effective time  *)
(* of the latest selection of the active segment (a tick's lookup or a      *)
(* click).                                                                  *)

Word(text, start, end) == [text |-> text, start_ms |-> start, end_ms |-> end]

WithWords(seg, words) ==
    [id |-> seg.id, start_ms |-> seg.start_ms, end_ms |-> seg.end_ms,
     text |-> seg.text, words |-> words]

\* The lists a parent passes as initialSegments: every segment of the first
\* has words within its range; in the second a word of the first segment
\* lies past the segment's end (the ranges are "not auto-corrected") and the
\* second segment has no words.
WordLists ==
    { << WithWords(Segment(<<"seg", 1>>, 0, 1),
                   <<Word("a", 0, 0), Word("b", 1, 1)>>),
         WithWords(Segment(<<"seg", 2>>, 2, 3), <<Word("c", 2, 3)>>) >>,
      << WithWords(Segment(<<"seg", 1>>, 0, 1),
                   <<Word("a", 0, 0), Word("b", 2, 2)>>),
         WithWords(Segment(<<"seg", 2>>, 2, 3), <<>>) >> }

\* The playback positions of this specification.
WordTimes == 0..MaxTime + 1

\* Row: `active` of one word, t being audio.currentTime * 1000.
RowActive(isCurrent, audio, t, w) ==
    isCurrent /\ audio /\ t >= w.start_ms /\ t <= w.end_ms

\* The words a render of Player lights: Row for every index, with the
\* currentIdx of the render and the position the media element has then.
RowHighlights(segs, idx, audio, t) ==
    { hw \in (0..Len(segs) - 1) \X (1..MaxLen) :
        /\ hw[2] <= Len(Item(segs, hw[1]).words)
        /\ RowActive(hw[1] = idx, audio, t, Item(segs, hw[1]).words[hw[2]]) }

WordsInit ==
    /\ view = "Player" /\ mounted = TRUE /\ cleanedUp = FALSE
    /\ audioEl = TRUE /\ currentTime = 0
    /\ lyrics = <<>> /\ index = -1 /\ currentIndexRef = -1 /\ mountedRef = TRUE
    /\ segments \in WordLists
    /\ currentIdx = -1 /\ autoScroll = TRUE /\ offsetMs = 0
    /\ timing = SetSegments(TimingCoreNew, segments)
    /\ rafRef = 0 /\ frames = <<>> /\ batch = <<>> /\ scrollTop = 0
    /\ pending = {} /\ audioFile = NoFile /\ cache = <<>>
    /\ last = [op |-> "mounted", at |-> 0]
    /\ highlighted = RowHighlights(segments, currentIdx, audioEl, currentTime)
    /\ SearchIdle /\ DriftIdle /\ WaveIdle /\ ListIdle /\ ParseIdle /\ BlobIdle

\* The media element plays or is sought: no state of Player changes.
WordsMediaClock ==
    /\ \E t \in WordTimes \ {currentTime} : currentTime' = t
    /\ last' = [op |-> "clock", at |-> last.at]
    /\ UNCHANGED <<view, mounted, cleanedUp, audioEl, lrcVars, timingVars,
                   rafVars, ioVars, asideVars>>

\* One run of Player's loop and the render its state updates cause:
\* setCurrentIdx when the index changed, else setRms, which re-renders only
\* when the smoothed value changed.  (scrollToItem moves react-window's own
\* scroll offset, which no row reads.)
WordsLoop ==
    /\ LET playbackMs == currentTime
           tc         == PushDrift(timing, TickDrift)
           segIdx     == GetCurrentSegmentIndex(tc, playbackMs)
       IN  /\ timing' = tc
           /\ currentIdx' = segIdx
           /\ last' = [op |-> "tick", at |-> EffectiveTime(tc, playbackMs)]
           /\ \E rmsChanged \in BOOLEAN :
                 highlighted' =
                    IF segIdx # currentIdx \/ rmsChanged
                    THEN RowHighlights(segments, segIdx, audioEl, currentTime)
                    ELSE highlighted
    /\ UNCHANGED <<view, mounted, cleanedUp, mediaVars, lrcVars, segments,
                   autoScroll, offsetMs, rafVars, ioVars, searchVars,
                   driftVars, waveVars, listVars, parseVars, blobVars>>

\* Player.onClickLine(i) and the render of setCurrentIdx(i).
WordsClickLine ==
    /\ \E i \in 0..Len(segments) - 1 :
          LET seg == Item(segments, i)
          IN  /\ currentTime' = seg.start_ms
              /\ currentIdx' = i
              /\ timing' = PushDrift(timing, 0)
              /\ last' = [op |-> "click", at |-> seg.start_ms]
              /\ highlighted' =
                    IF i # currentIdx
                    THEN RowHighlights(segments, i, audioEl, seg.start_ms)
                    ELSE highlighted
    /\ UNCHANGED <<view, mounted, cleanedUp, audioEl, lrcVars, segments,
                   autoScroll, offsetMs, rafVars, ioVars, searchVars,
                   driftVars, waveVars, listVars, parseVars, blobVars>>

\* The auto-scroll button and the render of setAutoScroll.
WordsToggleAutoScroll ==
    /\ autoScroll' = ~autoScroll
    /\ highlighted' = RowHighlights(segments, currentIdx, audioEl, currentTime)
    /\ last' = [op |-> "toggle", at |-> last.at]
    /\ UNCHANGED <<view, mounted, cleanedUp, mediaVars, lrcVars, segments,
                   currentIdx, offsetMs, timing, rafVars, ioVars, searchVars,
                   driftVars, waveVars, listVars, parseVars, blobVars>>

WordsNext ==
    WordsMediaClock \/ WordsLoop \/ WordsClickLine \/ WordsToggleAutoScroll

SpecWords == WordsInit /\ [][WordsNext]_vars

\* The word of a highlighted <<row, word>> pair.
WordAt(hw) == Item(segments, hw[1]).words[hw[2]]

(***************************************************************************)
(* C31: a word is highlighted only if it belongs to the segment at the     *)
(* active index and its range contains T, the effective time (playback     *)
(* position plus offset) that selected the active segment.                 *)
(***************************************************************************)
HighlightUsesSelectionTime ==
    \A hw \in highlighted :
        /\ hw[1] = currentIdx
        /\ WordAt(hw).start_ms <= last.at /\ last.at <= WordAt(hw).end_ms

\* What holds of Row: the highlighted words are words of the active row, and
\* every render lights exactly the words of that row whose range contains
\* the position the media element has at the render.
HighlightUsesRenderTime ==
    /\ [](\A hw \in highlighted : hw[1] = currentIdx)
    /\ [][highlighted' # highlighted =>
            highlighted' =
               { hw \in {currentIdx'} \X (1..MaxLen) :
                   /\ hw[1] >= 0 /\ hw[2] <= Len(Item(segments, hw[1]).words)
                   /\ Item(segments, hw[1]).words[hw[2]].start_ms <= currentTime'
                   /\ currentTime' <= Item(segments, hw[1]).words[hw[2]].end_ms }]_vars

\* A tick selected the first segment at 0 and lit its first word; the media
\* went on to 1 and the auto-scroll button was pressed: the second word is
\* lit, whose range does not contain the time of the selection.
RenderedAfterTheSelection ==
    /\ last = [op |-> "toggle", at |-> 0] /\ currentTime = 1
    /\ currentIdx = 0 /\ highlighted = {<<0, 2>>}

-----------------------------------------------------------------------------
(***************************************************************************)
(* C32: while a timing player is mounted, the list the TimingCore holds is *)
(* the list the component renders, element by element in the same order,   *)
(* after the initialSegments effect, a parsed lyrics file, a cache hit and *)
(* a manual merge alike; so every tick looks its index up in the list      *)
(* whose rows the render after it highlights.                              *)
(***************************************************************************)
CoreHoldsRenderedList ==
    mounted /\ view \in TimingViews => timing.segments = segments

\* A tick is about to run in PlayerComponent over a list that holds a
\* manually merged segment next to loaded ones.
TickOverMergedList ==
    /\ view = "PlayerComponent" /\ mounted /\ TickRuns
    /\ ManualCount(segments) > 0 /\ Len(segments) > ManualCount(segments)
    /\ timing.segments = segments

-----------------------------------------------------------------------------
(***************************************************************************)
(* C33: once no cache lookup is pending, the segments a cache hit has just *)
(* loaded are those stored under the audio file selected last: the answer  *)
(* for a superseded file never replaces the segments of the current one.   *)
(***************************************************************************)
CacheHitIsOfCurrentFile ==
    (/\ view = "PlayerComponent" /\ mounted /\ last = "cache-hit"
     /\ \A o \in pending : o.kind # "cacheRead")
    => cache[audioFile].present /\ segments = cache[audioFile].list

\* What holds: with a single lookup under way at a time, the hit loads the
\* list stored under the selected file.
CacheHitOfOnlyLookup ==
    [][(/\ view = "PlayerComponent" /\ mounted /\ last' = "cache-hit"
        /\ \E o \in pending : o.kind = "cacheRead" /\ Ended = {o}
        /\ \A o \in pending : o.kind = "cacheRead" => o.file = audioFile)
       => segments' = cache[audioFile].list]_vars

\* a.mp3 and then b.mp3 were selected, b.mp3's lookup answered first, and
\* the answer for a.mp3 has just put its list in place of b.mp3's.
LateAnswerReplaced ==
    /\ view = "PlayerComponent" /\ mounted /\ last = "cache-hit"
    /\ pending = {} /\ audioFile = "b.mp3"
    /\ cache["b.mp3"].present
    /\ segments = cache["a.mp3"].list /\ segments # cache["b.mp3"].list

-----------------------------------------------------------------------------
(***************************************************************************)
(* C34: a release that commits a selection maps the pointer with the       *)
(* buffer of the file the editor has then: while that file is still being  *)
(* decoded, or after its decode failed, the buffer of the previous file is *)
(* not used.  (A release with no buffer at all is the case of C35.)        *)
(***************************************************************************)
SelectionMappedWithCurrentFile ==
    [][emitted' # emitted => audioBuf = NoFile \/ audioBuf = audioFile]_vars

\* What holds: a decode that completes and is not discarded stores the
\* buffer of the file the editor has then.
BufferCurrentAfterDecode ==
    [][last' = "decoded" => audioBuf' = audioFile']_vars

\* a.mp3 was decoded and replaced by b.mp3, whose decode is still running:
\* the release was mapped with the 2 ms of a.mp3, b.mp3 lasting 1 ms.
MappedWithPreviousBuffer ==
    /\ last = "release" /\ audioFile = "b.mp3" /\ audioBuf = "a.mp3"
    /\ \E d \in decodes : d.file = "b.mp3" /\ ~d.cancelled
    /\ Len(emitted) = 1
    /\ emitted[1][2] = FileDuration["a.mp3"] * CanvasWidth

(***************************************************************************)
(* C35: a press and a release on the waveform while no audio buffer is     *)
(* loaded commit no selection and add no segment to the list.              *)
(***************************************************************************)
NoSelectionWithoutBuffer ==
    [][audioBuf = NoFile /\ last' = "release" =>
          emitted' = emitted /\ segments' = segments]_vars

\* Without a buffer a release that follows no press is ignored.
ReleaseWithoutPressIgnored ==
    [][last' = "release" /\ (~dragging \/ selRef = <<>>) =>
          emitted' = emitted /\ segments' = segments]_vars

\* No file was ever chosen; a press and a release committed the selection
\* (0, 0) and the list holds the segment made of it.
EmptySelectionCommitted ==
    /\ last = "release" /\ audioFile = NoFile /\ audioBuf = NoFile
    /\ emitted = << <<0, 0>> >>
    /\ Len(segments) = 1 /\ segments[1].start_ms = 0 /\ segments[1].end_ms = 0

-----------------------------------------------------------------------------
(* Overlapping scroll animations: scrollToIndex is called again while an    *)
(* earlier animation still has a frame requested.  Its only caller is the   *)
(* tick of PlayerComponent (Player.tsx, 207-211), whose callback is         *)
(* requested after the frames of the animations it started, so the call     *)
(* comes when the animation callbacks of the frame have run.                *)

\* At most MaxOverlap animations are under way at a time.
MaxOverlap == 2

\* The animation started where the list rests: at the top or at a target.
StartedAtRest(cb) ==
    \/ cb.start = 0
    \/ \E i \in ScrollIndices, align \in Aligns :
          2 * cb.start = TargetHalfPx(handleCount, listProps.itemHeight,
                                      listProps.height, i, align)

\* handle.scrollToIndex(i, align) with an animation under way: nothing is
\* cancelled, the new animation starts from the offset written last.  A
\* tick calls it at most once per frame (every animation under way has had
\* a frame); the model follows the overlaps of animations that started at
\* rest.
AnimScrollToIndexAgain ==
    /\ batch = <<>> /\ frames # <<>> /\ AnimCount(frames) < MaxOverlap
    /\ \A k \in DOMAIN frames : frames[k].age > 0 /\ StartedAtRest(frames[k])
    /\ \E i \in ScrollIndices, align \in Aligns :
          /\ target' = [i |-> i, align |-> align,
                         halfPx |-> TargetHalfPx(handleCount,
                                        listProps.itemHeight,
                                        listProps.height, i, align)]
          /\ SetRaf(RequestFrame(Raf, AnimCallback(scrollTop,
                                        target'.halfPx \div 2 - scrollTop)))
    /\ last' = Did("scrollTo")
    /\ UNCHANGED <<view, mounted, cleanedUp, mediaVars, lrcVars, timingVars,
                   scrollTop, ioVars, searchVars, driftVars, waveVars,
                   listProps, handleCount, visible, rendered, parseVars,
                   blobVars, rowVars>>

\* The user does not scroll.
OverlapNext ==
    \/ ListScrollToIndex
    \/ AnimScrollToIndexAgain
    \/ AnimBeginFrame
    \/ AnimationStep

SpecOverlap ==
    AnimInit /\ [][OverlapNext]_vars
        /\ WF_vars(AnimBeginFrame) /\ WF_vars(AnimationStep)

(***************************************************************************)
(* C36: a scrollToIndex call made while an earlier animation runs cancels  *)
(* nothing: every animation writes its own offset in each frame until its  *)
(* 340 ms are over, and when the last of them ends the scroll offset is    *)
(* the clamped target of the latest call (the user not scrolling).        *)
(***************************************************************************)
LatestTargetWins ==
    /\ [][batch = <<>> /\ batch' = <<>> /\ frames' # frames =>
            /\ last' = "scrollTo"
            /\ Len(frames') = Len(frames) + 1
            /\ \A i \in DOMAIN frames :
                  \E j \in DOMAIN frames' : frames'[j] = frames[i]]_vars
    /\ [][batch # <<>> /\ Head(batch).kind = "anim" =>
            /\ scrollTop' = AnimOffset(Head(batch))
            /\ Head(batch).age < dur <=> AnimCount(frames') = AnimCount(frames) + 1]_vars
    /\ [][AnimPending /\ ~AnimPending' => 2 * scrollTop' = target.halfPx]_vars

\* Two animations with different targets are called in one frame, both for
\* the last time; the earlier one is called first.
TwoAnimationsEndTogether ==
    /\ Len(batch) = 2 /\ batch[1].kind = "anim" /\ batch[2].kind = "anim"
    /\ batch[1].age >= dur /\ batch[2].age >= dur
    /\ batch[1].start + batch[1].delta # batch[2].start + batch[2].delta
    /\ 2 * (batch[2].start + batch[2].delta) = target.halfPx
    /\ scrollTop # batch[1].start

-----------------------------------------------------------------------------
(***************************************************************************)
(* C37: while auto-scroll is suppressed the scroll offset changes only by  *)
(* the user's scrolling, which happens between frames: no callback of a    *)
(* frame, and so no frame of a scroll animation started before the toggle, *)
(* changes it.                                                             *)
(***************************************************************************)
SuppressedOffsetMovesOnlyByUser ==
    [][(~autoScroll /\ view \in TimingViews /\ scrollTop' # scrollTop)
          => batch = <<>>]_vars

\* What holds: with auto-scroll suppressed no new animation is started, and
\* the offset changes in a frame only by a callback of an animation.
SuppressedStartsNoAnimation ==
    [][~autoScroll /\ view \in TimingViews =>
          /\ AnimCount(frames') + AnimCount(batch')
                <= AnimCount(frames) + AnimCount(batch)
          /\ (scrollTop' # scrollTop /\ batch # <<>> =>
                Head(batch).kind = "anim")]_vars

\* Auto-scroll is off and a frame of an animation started before the toggle
\* is about to move the list.
AnimationOutlivesToggle ==
    /\ view = "PlayerComponent" /\ mounted /\ ~autoScroll
    /\ batch # <<>> /\ Head(batch).kind = "anim"
    /\ AnimOffset(Head(batch)) # scrollTop

====
